---------------------------- MODULE Spec2Model ----------------------------
(***************************************************************************)
(* A model of sos/origin.py: the origin server middleware.                 *)
(*                                                                         *)
(* Spec          the origin database (OriginDbHandler: HEAD, PUT, POST,    *)
(*               DELETE) and the CDN edge path (CdnHandler), the requests  *)
(*               served one after another over the metadata cache and a    *)
(*               backing object store that may fail any sub-request.       *)
(* SpecConc      the same handlers serving requests that overlap, over a   *)
(*               backing store that does not fail. A request is suspended  *)
(*               at every cache call and every backend sub-request; what   *)
(*               lies between two such calls is one atomic step.           *)
(* SpecDispatch  OriginServer.__call__: the choice of the handler from the *)
(*               Host header and the path.                                 *)
(* SpecEdge      one request to CdnHandler, over the contents the cache    *)
(*               and the hash-shard object may have.                       *)
(* SpecAdmin     one request to AdminHandler: the preparation of the       *)
(*               origin account and its hash containers.                   *)
(* SpecUrls      one call of get_cdn_urls, over the configurations of the  *)
(*               outgoing URL formats and of the signing.                  *)
(* SpecListing   one listing request (origin_db_get), over the listings an *)
(*               account may have.                                         *)
(* SpecDbOne     one request to OriginDbHandler, of any method, with the   *)
(*               authorize callable of the environment.                    *)
(***************************************************************************)
EXTENDS Integers, Sequences, FiniteSets, TLC

(***************************************************************************)
(* Bounds of the model.                                                    *)
(***************************************************************************)
NumProcs == 2
MaxHostLen == 3
MaxPathLen == 2

Procs == 1..NumProcs
\* The model follows the requests on one container key: the cache entry and the
\* objects of a key are touched by the requests on that key alone.
Containers == {1}

(***************************************************************************)
(* Program constants and configuration.                                    *)
(***************************************************************************)
CACHE_BAD_URL == 86400
CACHE_404 == 30
MEMCACHE_TIMEOUT == 3600
\* conf: min_ttl, max_ttl, default_ttl (scaled down: the defaults are 900,
\* 3155692600 and 259200).
min_ttl == 2
max_ttl == 3
default_ttl == 2

\* swift.common.utils.TRUE_VALUES
TRUE_VALUES == {"true", "1", "yes", "on", "t", "y"}

\* str.lower() on the header values the model draws.
lower(s) ==
  CASE s = "True" -> "true"
    [] s = "False" -> "false"
    [] OTHER -> s

\* int(s) on the header values the model draws: ok = FALSE is ValueError.
int(s) ==
  CASE s = "0" -> [ok |-> TRUE, val |-> 0]
    [] s = "1" -> [ok |-> TRUE, val |-> 1]
    [] s = "2" -> [ok |-> TRUE, val |-> 2]
    [] s = "3" -> [ok |-> TRUE, val |-> 3]
    [] s = "4" -> [ok |-> TRUE, val |-> 4]
    [] OTHER -> [ok |-> FALSE, val |-> 0]

(***************************************************************************)
(* Values. A cache value or an object body is the text "404", the JSON     *)
(* text of a record, or nothing; a HashData object is what                 *)
(* create_from_json makes of the JSON text. All are records of one shape   *)
(* so that they can be compared.                                           *)
(***************************************************************************)
Val(k, c, t, e, l) ==
  [kind |-> k, container |-> c, ttl |-> t, cdn_enabled |-> e, logs_enabled |-> l]

Absent == Val("absent", 0, 0, FALSE, FALSE)
Sentinel404 == Val("404", 0, 0, FALSE, FALSE)
None == Val("None", 0, 0, FALSE, FALSE)

\* HashData.__init__
HashData(container, ttl, cdn_enabled, logs_enabled) ==
  Val("HashData", container, ttl, cdn_enabled, logs_enabled)

\* HashData.get_json_str
get_json_str(hd) ==
  Val("json", hd.container, hd.ttl, hd.cdn_enabled, hd.logs_enabled)

\* HashData.create_from_json: None stands for the ValueError it raises.
create_from_json(json_str) ==
  IF json_str.kind = "json"
  THEN HashData(json_str.container, json_str.ttl, json_str.cdn_enabled,
                json_str.logs_enabled)
  ELSE None

\* Python's str() of a bool, as '%s' renders it.
PyStr(b) == IF b THEN "True" ELSE "False"

\* A Content-Type with the two flags in each other's place.
_gen_listing_content_type_Swapped(cdn_enabled, ttl, logs_enabled) ==
  [kind |-> "x-cdn", cdn |-> PyStr(logs_enabled), ttl |-> ttl,
   log_ret |-> PyStr(cdn_enabled)]

\* OriginDbHandler._gen_listing_content_type: 'x-cdn/<cdn>-<ttl>-<logs>'
_gen_listing_content_type(cdn_enabled, ttl, logs_enabled) ==
  [kind |-> "x-cdn", cdn |-> PyStr(cdn_enabled), ttl |-> ttl,
   log_ret |-> PyStr(logs_enabled)]

NoChild == [kind |-> "absent", cdn |-> "", ttl |-> 0, log_ret |-> ""]

(***************************************************************************)
(* Requests and responses.                                                 *)
(***************************************************************************)
NoHeader == "absent"
XTTLValues == {NoHeader, "abc", "1", "3", "4"}
BoolHeaderValues == {NoHeader, "True", "False"}
NoHeaders == [x_ttl |-> NoHeader, x_cdn |-> NoHeader, x_log |-> NoHeader]

DbMethods == {"HEAD", "PUT", "POST", "DELETE"}
WriteMethods == {"PUT", "POST", "DELETE"}

\* A request: the surface it came in on, its method, the container key it
\* names, and how far it gets ("ok": to the handler's work on the container).
Request(surface, method, container, kind) ==
  [surface |-> surface, method |-> method, container |-> container,
   kind |-> kind]

NoReq == Request("none", "", 0, "")

\* A response: the status, the X-TTL, X-CDN-Enabled and X-Log-Retention
\* headers of a HEAD answer, and max-age of the Cache-Control header of an edge
\* answer (0 and "" where the response carries no such header).
Response(status, x_ttl, x_cdn, x_log, max_age) ==
  [status |-> status, x_ttl |-> x_ttl, x_cdn |-> x_cdn, x_log |-> x_log,
   max_age |-> max_age]

NoResp == Response(0, 0, "", "", 0)
Plain(status) == Response(status, 0, "", "", 0)

\* Statuses a failing backend answers a sub-request with.
FaultStatuses == {301, 500}

Is2xx(status) == status \div 100 = 2

VARIABLES
  world,          \* the environment: requests overlap, the backend fails, the
                  \* requests carry X-CDN-Enabled and X-Log-Retention, or not
  conf,           \* the configuration snapshot: cache client present, delete_enabled
  memcache,       \* the cache: container key -> value
  hash_obj,       \* backend: the hash-shard object of each container key
  listing_cont,   \* backend: whether the per-account listing container exists
  listing_child,  \* backend: the listing child of each container (Content-Type)
  pc,             \* per request slot: where its handler is suspended
  req,            \* per request slot: the request being handled
  hash_data,      \* per request slot: what get_cdn_data returned
  headers,        \* per request slot: the X-* headers read by PUT/POST
  pending,        \* per request slot: the value its next cache/backend write carries
  resp,           \* per request slot: the response returned
  sent,           \* per request slot: the backend sub-requests issued, with status
  cacheops,       \* per request slot: the cache calls made
  lastWrite,      \* history: per container, the last completed write
  expect,         \* history: per request slot, lastWrite when the request began
  clean,          \* history: per request slot, no other write overlapped this one
  denv,           \* dispatcher: the request environment (Host, PATH_INFO)
  handler,        \* dispatcher: the handler chosen
  given,          \* the one request a single-request specification serves
  prep,           \* AdminHandler: where it is, the PUTs issued, the response
  urls,           \* get_cdn_urls: whether it was called, and what it returned
  listing,        \* origin_db_get: where it is, the listing GETs, the response
  shard           \* get_hsh_obj_path: the calls made, with what each returned

dbvars == <<world, conf, memcache, hash_obj, listing_cont, listing_child, pc, req,
            hash_data, headers, pending, resp, sent, cacheops, lastWrite,
            expect, clean>>
dispvars == <<denv, handler>>
sidevars == <<given, prep, urls, listing, shard>>
vars == <<dbvars, dispvars, sidevars>>


(***************************************************************************)
(* Bookkeeping shared by the handlers.                                     *)
(***************************************************************************)
\* A completed write: the method, the record a PUT or POST stored, and for a
\* DELETE whether it followed a PUT that returned 201.
NoWrite == [op |-> "none", rec |-> Absent, afterPut |-> FALSE]

InFlight(q) == pc[q] # "idle"

\* A response is returned before any other request takes its next step.
Returning == \E q \in Procs : pc[q] = "done"

\* The request in slot p is suspended at l, and is the one to go on.
At(p, l) == ~Returning /\ pc[p] = l
IsWriter(q) == req[q].surface = "db" /\ req[q].method \in WriteMethods

\* One backend sub-request (make_pre_authed_request(...).get_response(app)).
SubReq(method, target, status) ==
  [method |-> method, target |-> target, status |-> status,
   oversize |-> FALSE, location |-> FALSE]

Send(p, method, target, status) ==
  sent' = [sent EXCEPT ![p] = Append(@, SubReq(method, target, status))]

CacheOp(p, op, kind) ==
  cacheops' = [cacheops EXCEPT ![p] = Append(@, [op |-> op, kind |-> kind])]

\* The handler returns response r.
Finish(p, r) ==
  /\ pc' = [pc EXCEPT ![p] = "done"]
  /\ resp' = [resp EXCEPT ![p] = r]
  /\ hash_data' = [hash_data EXCEPT ![p] = None]
  /\ pending' = [pending EXCEPT ![p] = Absent]

\* The handler goes on to step l.
Goto(p, l) ==
  /\ pc' = [pc EXCEPT ![p] = l]
  /\ UNCHANGED resp

(***************************************************************************)
(* A request comes in: slot p takes it. The history variables note whether *)
(* it overlaps another request and which write it follows.                 *)
(***************************************************************************)
Accept(p, r) ==
  /\ At(p, "idle")
  /\ world.concurrent \/ (p = 1 /\ \A q \in Procs : ~InFlight(q))
  /\ req' = [req EXCEPT ![p] = r]
  /\ sent' = [sent EXCEPT ![p] = <<>>]
  /\ cacheops' = [cacheops EXCEPT ![p] = <<>>]
  /\ headers' = [headers EXCEPT ![p] = NoHeaders]
  /\ LET c == r.container
         writer == r.surface = "db" /\ r.method \in WriteMethods
         others == {q \in Procs \ {p} : InFlight(q) /\ req[q].container = c}
     IN  /\ expect' = [q \in Procs |->
                         IF q = p THEN lastWrite[c]
                         ELSE IF writer /\ q \in others THEN NoWrite
                         ELSE expect[q]]
         /\ clean' = [q \in Procs |->
                         IF q = p THEN \A o \in others : ~IsWriter(o)
                         ELSE IF writer /\ q \in others THEN FALSE
                         ELSE clean[q]]
         /\ lastWrite' = IF writer THEN [lastWrite EXCEPT ![c] = NoWrite]
                         ELSE lastWrite

\* The statuses the backend may fail the next sub-request with.
Faults == IF world.faults THEN FaultStatuses ELSE {}

backend == <<hash_obj, listing_cont, listing_child>>
hist == <<lastWrite, expect, clean>>

(***************************************************************************)
(* OriginDbHandler.origin_db_puts_posts, lines 677-710: the record to      *)
(* store, from the record found (hd, or None) and the request's headers h. *)
(***************************************************************************)
\* ttl = int(req.headers.get('X-TTL', ttl))
RequestedTtl(hd, h) ==
  LET ttl == IF hd # None THEN hd.ttl ELSE default_ttl
  IN  IF h.x_ttl = NoHeader THEN [ok |-> TRUE, val |-> ttl] ELSE int(h.x_ttl)

\* A range check that has lost its upper limit.
TtlInRange_NoUpper(ttl) == ~(ttl < min_ttl)

\* A range check that has lost its lower limit.
TtlInRange_NoLower(ttl) == ~(ttl > max_ttl)

\* not (ttl < self.min_ttl or ttl > self.max_ttl)
TtlInRange(ttl) == ~(ttl < min_ttl \/ ttl > max_ttl)

\* A record built from the headers and the defaults alone.
NewHashData_NoInherit(container, hd, h) ==
  LET ttl == IF h.x_ttl # NoHeader THEN int(h.x_ttl).val ELSE default_ttl
      logs_enabled == IF h.x_log # NoHeader
                      THEN lower(h.x_log) \in TRUE_VALUES ELSE FALSE
      cdn_enabled == IF h.x_cdn # NoHeader
                     THEN lower(h.x_cdn) \in TRUE_VALUES ELSE TRUE
  IN  HashData(container, ttl, cdn_enabled, logs_enabled)

NewHashData(container, hd, h) ==
  LET cdn_enabled0 == IF hd # None THEN hd.cdn_enabled ELSE TRUE
      logs_enabled0 == IF hd # None THEN hd.logs_enabled ELSE FALSE
      logs_enabled == IF h.x_log # NoHeader
                      THEN lower(h.x_log) \in TRUE_VALUES ELSE logs_enabled0
      cdn_enabled == IF h.x_cdn # NoHeader
                     THEN lower(h.x_cdn) \in TRUE_VALUES ELSE cdn_enabled0
  IN  HashData(container, RequestedTtl(hd, h).val, cdn_enabled, logs_enabled)

\* The headers a PUT or POST may carry.
HeaderChoices ==
  IF world.flags
  THEN [x_ttl : XTTLValues, x_cdn : BoolHeaderValues, x_log : BoolHeaderValues]
  ELSE [x_ttl : XTTLValues, x_cdn : {NoHeader}, x_log : {NoHeader}]

\* origin_db_puts_posts from the return of get_cdn_data to the backend PUT.
PutsPostsCheck(p, hd) ==
  IF hd = None /\ req[p].method = "POST"
  THEN Finish(p, Plain(404)) /\ UNCHANGED headers
  ELSE \E h \in HeaderChoices :
         LET ttl == RequestedTtl(hd, h)
         IN  IF ~ttl.ok \/ ~TtlInRange(ttl.val)
             THEN \* the other headers have not been read
                  /\ h.x_cdn = NoHeader /\ h.x_log = NoHeader
                  /\ Finish(p, Plain(400))
                  /\ headers' = [headers EXCEPT ![p] = h]
             ELSE /\ Goto(p, "put_hash_obj")
                  /\ headers' = [headers EXCEPT ![p] = h]
                  /\ hash_data' = [hash_data EXCEPT ![p] = hd]
                  /\ pending' = [pending EXCEPT ![p] =
                       get_json_str(NewHashData(req[p].container, hd, h))]

\* OriginDbHandler.origin_db_head from the return of get_cdn_data.
HeadResponse(hd) ==
  IF hd # None
  THEN Response(204, hd.ttl, PyStr(hd.cdn_enabled), PyStr(hd.logs_enabled), 0)
  ELSE Plain(404)

\* A handler that proxies for any record it finds.
Proxied_AnyRecord(hd) == hd # None

\* CdnHandler.handle_request, line 404: is the request proxied to the backend?
Proxied(hd) == hd # None /\ hd.cdn_enabled

\* What the caller of get_cdn_data does with its result hd.
AfterLookup(p, hd) ==
  CASE req[p].surface = "edge" ->
         /\ UNCHANGED headers
         /\ IF Proxied(hd)
            THEN /\ Goto(p, "edge_forward")
                 /\ hash_data' = [hash_data EXCEPT ![p] = hd]
                 /\ pending' = [pending EXCEPT ![p] = Absent]
            ELSE Finish(p, Response(404, 0, "", "", CACHE_404))
    [] req[p].surface = "db" /\ req[p].method = "HEAD" ->
         Finish(p, HeadResponse(hd)) /\ UNCHANGED headers
    [] OTHER -> PutsPostsCheck(p, hd)

(***************************************************************************)
(* OriginBase.get_cdn_data                                                 *)
(***************************************************************************)
\* A cache lookup that takes the "404" sentinel for a miss.
CacheHit_NoSentinel(cached) ==
  IF cached # Absent /\ create_from_json(cached) # None
  THEN [hit |-> TRUE, hd |-> create_from_json(cached)]
  ELSE [hit |-> FALSE, hd |-> None]

\* lines 208-218: the cache lookup.
CacheHit(cached) ==
  IF cached = Sentinel404 THEN [hit |-> TRUE, hd |-> None]
  ELSE IF cached # Absent /\ create_from_json(cached) # None
       THEN [hit |-> TRUE, hd |-> create_from_json(cached)]
       ELSE [hit |-> FALSE, hd |-> None]

GcdCacheGet(p) ==
  /\ At(p, "get_cdn_data")
  /\ UNCHANGED <<world, conf, memcache, backend, req, sent, hist, dispvars, sidevars>>
  /\ IF conf.hasCache
     THEN LET cached == memcache[req[p].container]
          IN  /\ CacheOp(p, "get", cached.kind)
              /\ IF CacheHit(cached).hit
                 THEN AfterLookup(p, CacheHit(cached).hd)
                 ELSE /\ Goto(p, "gcd_backend_get")
                      /\ UNCHANGED <<hash_data, headers, pending>>
     ELSE /\ Goto(p, "gcd_backend_get")
          /\ UNCHANGED <<cacheops, hash_data, headers, pending>>

\* What the backend answers a GET of the hash-shard object with.
BackendGet(body) ==
  IF body # Absent THEN [status |-> 200, body |-> body]
  ELSE [status |-> 404, body |-> Absent]

\* A lookup that caches "404" whatever made the backend GET fail.
GcdCaches_AnyStatus(status) == TRUE

\* lines 222 and 232: the answers of the backend GET that are cached, a 2xx
\* as its body and a 404 as "404".
GcdCaches(status) == Is2xx(status) \/ status = 404

\* lines 220-237 when no cache write follows.
GcdBackendGet(p) ==
  /\ At(p, "gcd_backend_get")
  /\ UNCHANGED <<world, conf, memcache, backend, req, cacheops, hist, dispvars, sidevars>>
  /\ \E r \in {BackendGet(hash_obj[req[p].container])}
              \cup [status : Faults, body : {Absent}] :
       /\ Send(p, "GET", "hash_obj", r.status)
       /\ IF conf.hasCache /\ GcdCaches(r.status)
          THEN /\ Goto(p, "gcd_cache_set")
               /\ pending' = [pending EXCEPT ![p] =
                    IF Is2xx(r.status) THEN r.body ELSE Sentinel404]
               /\ UNCHANGED <<hash_data, headers>>
          ELSE AfterLookup(p, IF Is2xx(r.status)
                              THEN create_from_json(r.body) ELSE None)

\* lines 224-228 and 232-235: the cache write, then the parse of the body.
GcdCacheSet(p) ==
  /\ At(p, "gcd_cache_set")
  /\ UNCHANGED <<world, conf, backend, req, sent, hist, dispvars, sidevars>>
  /\ memcache' = [memcache EXCEPT ![req[p].container] = pending[p]]
  /\ CacheOp(p, "set", pending[p].kind)
  /\ AfterLookup(p, create_from_json(pending[p]))

(***************************************************************************)
(* OriginDbHandler.handle_request and the first lines of its handlers: the *)
(* authorize hook, the method, split_path and delete_enabled.              *)
(***************************************************************************)
AuthResults == {"absent", "pass", "deny"}
PathKinds == {"ok", "invalid"}

\* How far a request gets, with the method dispatch looked at before the
\* authorize callable.
DbKind_DisabledFirst(method, auth, path) ==
  IF method = "DELETE" /\ ~conf.delete_enabled THEN "disabled"
  ELSE IF auth = "deny" THEN "denied"
  ELSE IF method \notin DbMethods THEN "no_handler"
  ELSE IF path = "invalid" THEN "invalid_path"
  ELSE "ok"

\* How far a request gets: the authorize callable comes first, then the
\* dispatch on the method, then the checks of the method's handler.
DbKind(method, auth, path) ==
  IF auth = "deny" THEN "denied"
  ELSE IF method \notin DbMethods THEN "no_handler"
  ELSE IF method = "DELETE" /\ ~conf.delete_enabled THEN "disabled"
  ELSE IF path = "invalid" THEN "invalid_path"
  ELSE "ok"

\* A DELETE that starts with the backend.
FirstStep_BackendFirst(method) ==
  IF method # "DELETE" THEN "get_cdn_data" ELSE "delete_hash_obj"

\* The first cache call or sub-request of the method's handler: the lookup of
\* HEAD, PUT and POST; the cache delete of DELETE (lines 618-622), or with no
\* cache client its first backend DELETE.
FirstStep(method) ==
  IF method # "DELETE" THEN "get_cdn_data"
  ELSE IF conf.hasCache THEN "delete_cache"
  ELSE "delete_hash_obj"

\* handle_request up to the first cache call or sub-request of the method's
\* handler; aresp is the status of the response authorize returns when it
\* returns one.
DbBegin(p, method, c, auth, aresp, path) ==
    LET kind == DbKind(method, auth, path)
    IN  /\ Accept(p, Request("db", method, c, kind))
        /\ UNCHANGED <<world, conf, memcache, backend, dispvars>>
        /\ CASE kind = "denied" -> Finish(p, Plain(aresp))
             [] kind = "no_handler" -> Finish(p, Plain(404))
             [] kind = "disabled" -> Finish(p, Plain(405))
             [] kind = "invalid_path" -> Finish(p, Plain(400))
             [] OTHER ->
                  /\ pc' = [pc EXCEPT ![p] = FirstStep(method)]
                  /\ resp' = [resp EXCEPT ![p] = NoResp]
                  /\ hash_data' = [hash_data EXCEPT ![p] = None]
                  /\ pending' = [pending EXCEPT ![p] = Absent]

DbRequest(p) ==
  \E method \in DbMethods, c \in Containers, auth \in AuthResults,
     path \in PathKinds :
    /\ DbBegin(p, method, c, auth, 403, path)
    /\ UNCHANGED sidevars

(***************************************************************************)
(* OriginDbHandler.origin_db_puts_posts, lines 711-759                     *)
(***************************************************************************)
\* The write is over: the history notes it when no other write overlapped.
Written(p, w) ==
  /\ lastWrite' = [lastWrite EXCEPT ![req[p].container] =
                     IF clean[p] THEN w ELSE NoWrite]
  /\ UNCHANGED <<expect, clean>>

\* raise OriginDbFailure, caught by handle_request.
OriginDbFailure(p) == Finish(p, Plain(500))

\* A PUT of the hash-shard object whose failure is not looked at before the
\* cache write.
PutHashObj_CacheAnyway(p) ==
  /\ At(p, "put_hash_obj")
  /\ UNCHANGED <<world, conf, memcache, listing_cont, listing_child, req, cacheops,
                 hist, dispvars, sidevars>>
  /\ headers' = [headers EXCEPT ![p] = NoHeaders]
  /\ \E status \in {201} \cup Faults :
       /\ Send(p, "PUT", "hash_obj", status)
       /\ hash_obj' = IF Is2xx(status)
                      THEN [hash_obj EXCEPT ![req[p].container] = pending[p]]
                      ELSE hash_obj
       /\ Goto(p, IF conf.hasCache THEN "put_cache_set"
                  ELSE "head_listing_cont")
       /\ hash_data' = [hash_data EXCEPT ![p] = None]
       /\ UNCHANGED pending

\* lines 715-721: PUT of the hash-shard object.
PutHashObj(p) ==
  /\ At(p, "put_hash_obj")
  /\ UNCHANGED <<world, conf, memcache, listing_cont, listing_child, req, cacheops,
                 hist, dispvars, sidevars>>
  /\ headers' = [headers EXCEPT ![p] = NoHeaders]
  /\ \E status \in {201} \cup Faults :
       /\ Send(p, "PUT", "hash_obj", status)
       /\ IF ~Is2xx(status)
          THEN OriginDbFailure(p) /\ UNCHANGED hash_obj
          ELSE /\ hash_obj' = [hash_obj EXCEPT ![req[p].container] = pending[p]]
               /\ Goto(p, IF conf.hasCache THEN "put_cache_set"
                          ELSE "head_listing_cont")
               /\ hash_data' = [hash_data EXCEPT ![p] = None]
               /\ UNCHANGED pending

\* A PUT or POST that leaves the cache as it was.
PutCacheSet_NoSet(p) ==
  /\ At(p, "put_cache_set")
  /\ UNCHANGED <<world, conf, backend, req, sent, hash_data, headers, pending, hist,
                 dispvars, sidevars, memcache>>
  /\ CacheOp(p, "set", pending[p].kind)
  /\ Goto(p, "head_listing_cont")

\* lines 723-727: the new record goes into the cache.
PutCacheSet(p) ==
  /\ At(p, "put_cache_set")
  /\ UNCHANGED <<world, conf, backend, req, sent, hash_data, headers, pending, hist,
                 dispvars, sidevars>>
  /\ memcache' = [memcache EXCEPT ![req[p].container] = pending[p]]
  /\ CacheOp(p, "set", pending[p].kind)
  /\ Goto(p, "head_listing_cont")

\* lines 729-732: HEAD of the listing container; only a 404 is looked at.
HeadListingCont(p) ==
  /\ At(p, "head_listing_cont")
  /\ UNCHANGED <<world, conf, memcache, backend, req, cacheops, hash_data, headers,
                 pending, hist, dispvars, sidevars>>
  /\ \E status \in {IF listing_cont THEN 204 ELSE 404} \cup Faults :
       /\ Send(p, "HEAD", "listing_cont", status)
       /\ Goto(p, IF status = 404 THEN "put_listing_cont"
                  ELSE "put_listing_child")

\* lines 733-738: the listing container is created.
PutListingCont(p) ==
  /\ At(p, "put_listing_cont")
  /\ UNCHANGED <<world, conf, memcache, hash_obj, listing_child, req, cacheops,
                 headers, hist, dispvars, sidevars>>
  /\ \E status \in {201} \cup Faults :
       /\ Send(p, "PUT", "listing_cont", status)
       /\ IF ~Is2xx(status)
          THEN OriginDbFailure(p) /\ UNCHANGED listing_cont
          ELSE /\ listing_cont' = TRUE
               /\ Goto(p, "put_listing_child")
               /\ UNCHANGED <<hash_data, pending>>

\* What the backend answers a PUT or POST of a listing child with: a PUT
\* needs the container, a POST the object.
BackendListingChild(method, cont, child) ==
  IF method = "PUT"
  THEN IF cont THEN 201 ELSE 404
  ELSE IF cont /\ child # NoChild THEN 202 ELSE 404

\* lines 740-759: PUT or POST of the listing child, and the response.
PutListingChild(p) ==
  /\ At(p, "put_listing_child")
  /\ UNCHANGED <<world, conf, memcache, hash_obj, listing_cont, req, cacheops,
                 headers, dispvars, sidevars>>
  /\ LET c == req[p].container
         ctype == _gen_listing_content_type(pending[p].cdn_enabled,
                    pending[p].ttl, pending[p].logs_enabled)
     IN \E status \in {BackendListingChild(req[p].method, listing_cont,
                                           listing_child[c])}
                      \cup Faults :
          /\ Send(p, req[p].method, "listing_child", status)
          /\ IF ~Is2xx(status)
             THEN OriginDbFailure(p) /\ UNCHANGED <<listing_child, hist>>
             ELSE /\ listing_child' = [listing_child EXCEPT ![c] = ctype]
                  /\ Written(p, [op |-> req[p].method, rec |-> pending[p],
                                 afterPut |-> FALSE])
                  /\ Finish(p, Plain(IF req[p].method = "POST"
                                     THEN 202 ELSE 201))

(***************************************************************************)
(* OriginDbHandler.origin_db_delete, lines 618-645                         *)
(***************************************************************************)
\* A DELETE that leaves the cache entry in place.
DeleteCache_Keep(p) ==
  /\ At(p, "delete_cache")
  /\ UNCHANGED <<world, conf, backend, req, sent, hash_data, headers, pending, hist,
                 dispvars, sidevars, memcache>>
  /\ CacheOp(p, "delete", memcache[req[p].container].kind)
  /\ Goto(p, "delete_hash_obj")

\* lines 618-622: the cache entry is removed.
DeleteCache(p) ==
  /\ At(p, "delete_cache")
  /\ UNCHANGED <<world, conf, backend, req, sent, hash_data, headers, pending, hist,
                 dispvars, sidevars>>
  /\ memcache' = [memcache EXCEPT ![req[p].container] = Absent]
  /\ CacheOp(p, "delete", memcache[req[p].container].kind)
  /\ Goto(p, "delete_hash_obj")

\* A 404 means it's already deleted, which is okay.
DeleteTolerated(status) == ~(~Is2xx(status) /\ status # 404)

\* lines 624-630: DELETE of the hash-shard object.
DeleteHashObj(p) ==
  /\ At(p, "delete_hash_obj")
  /\ UNCHANGED <<world, conf, memcache, listing_cont, listing_child, req, cacheops,
                 headers, hist, dispvars, sidevars>>
  /\ LET c == req[p].container
     IN \E status \in {IF hash_obj[c] # Absent THEN 204 ELSE 404}
                      \cup Faults :
          /\ Send(p, "DELETE", "hash_obj", status)
          /\ IF ~DeleteTolerated(status)
             THEN OriginDbFailure(p) /\ UNCHANGED hash_obj
             ELSE /\ hash_obj' = [hash_obj EXCEPT ![c] = Absent]
                  /\ Goto(p, "delete_listing_child")
                  /\ UNCHANGED <<hash_data, pending>>

\* A response that is not-found as soon as either DELETE found nothing.
DeleteResponse_Either(status, list_status) ==
  IF status = 404 \/ list_status = 404 THEN Plain(404) ELSE Plain(204)

\* lines 641-645: the response, from the statuses of the two DELETEs.
DeleteResponse(status, list_status) ==
  IF status = 404 /\ list_status = 404 THEN Plain(404) ELSE Plain(204)

\* lines 632-645: DELETE of the listing child, and the response.
DeleteListingChild(p) ==
  /\ At(p, "delete_listing_child")
  /\ UNCHANGED <<world, conf, memcache, hash_obj, listing_cont, req, cacheops,
                 headers, dispvars, sidevars>>
  /\ LET c == req[p].container
         first == sent[p][Len(sent[p])].status
     IN \E status \in {IF listing_child[c] # NoChild THEN 204 ELSE 404}
                      \cup Faults :
          /\ Send(p, "DELETE", "listing_child", status)
          /\ IF ~DeleteTolerated(status)
             THEN OriginDbFailure(p) /\ UNCHANGED <<listing_child, hist>>
             ELSE /\ listing_child' = [listing_child EXCEPT ![c] = NoChild]
                  /\ Finish(p, DeleteResponse(first, status))
                  /\ IF DeleteResponse(first, status).status = 204
                     THEN Written(p, [op |-> "DELETE", rec |-> Absent,
                                      afterPut |-> expect[p].op = "PUT"])
                     ELSE UNCHANGED hist

(***************************************************************************)
(* CdnHandler.handle_request                                               *)
(***************************************************************************)
\* No request has been drawn.
NoGiven == [surface |-> "none"]

\* origin_db_get has not been called.
NoListing == [pc |-> "idle", marker |-> 0, gets |-> <<>>, out |-> <<>>,
              status |-> 0]

\* get_cdn_urls has not been called.
NoUrls == [pc |-> "idle", ok |-> TRUE, section |-> <<>>, out |-> <<>>,
           status |-> 0]

\* AdminHandler has not been called.
NoPrep == [pc |-> "idle", puts |-> <<>>, status |-> 0]

\* The response that hands the request on to the wrapped application
\* (OriginRequestNotAllowed, caught by the dispatcher).
PassedToApp == Plain(-1)

EdgeMethods == {"GET", "HEAD", "PUT"}
\* How far an edge request gets: stopped for its method, for its remote
\* address (not in allowed_origin_remote_ips), for want of a hash, for a hash
\* that get_hsh_obj_path refuses, or on to the lookup of the metadata record.
EdgeKinds == {"bad_method", "not_allowed", "no_hash", "bad_hash", "ok"}

\* A string that may be None.
NoStr == [some |-> FALSE, str |-> <<>>]
Str(s) == [some |-> TRUE, str |-> s]
\* `if s`: neither None nor empty.
Truthy(s) == s.some /\ s.str # <<>>

\* The characters of a hash: a hexadecimal digit, a letter that is none, '-'.
HashChars == {"a", "g", "-"}
HexDigits == {"a"}

\* lines 378-390: the hash in the environment, or else the `hash` group of the
\* first incoming_url_regex that matches (url_hash; None when none matches).
ObtainedHash(env_hash, env_object_name, url_hash) ==
  IF (~env_hash.some \/ ~env_object_name.some) /\ url_hash.some
     /\ ~Truthy(env_hash)
  THEN url_hash
  ELSE env_hash

\* lines 395-396: hsh.split('-', 1)[1] when hsh holds a '-'.
AfterDash(hsh) ==
  LET dashes == {i \in 1..Len(hsh) : hsh[i] = "-"}
  IN  IF dashes = {} THEN hsh
      ELSE SubSeq(hsh, (CHOOSE i \in dashes : \A j \in dashes : i <= j) + 1,
                  Len(hsh))

\* get_hsh_obj_path, line 194: int(hsh, 16) raises no ValueError. int() takes
\* a sign before the digits.
int16(hsh) ==
  LET digits == IF hsh # <<>> /\ hsh[1] = "-" THEN Tail(hsh) ELSE hsh
  IN  digits # <<>> /\ \A i \in 1..Len(digits) : digits[i] \in HexDigits

\* Checks that let every method through.
EdgeEntry_AnyMethod(g) ==
  IF ~g.remote_allowed THEN "not_allowed"
  ELSE LET hsh == ObtainedHash(g.env_hash, g.env_object_name, g.url_hash)
       IN  IF ~Truthy(hsh) THEN "no_hash"
           ELSE IF ~int16(AfterDash(hsh.str)) THEN "bad_hash"
           ELSE "ok"

\* Checks that leave out allowed_origin_remote_ips.
EdgeEntry_NoIpCheck(g) ==
  IF g.method \notin {"GET", "HEAD"} THEN "bad_method"
  ELSE LET hsh == ObtainedHash(g.env_hash, g.env_object_name, g.url_hash)
       IN  IF ~Truthy(hsh) THEN "no_hash"
           ELSE IF ~int16(AfterDash(hsh.str)) THEN "bad_hash"
           ELSE "ok"

\* lines 369-402: the checks that precede the lookup, on request g.
EdgeEntry(g) ==
  IF g.method \notin {"GET", "HEAD"} THEN "bad_method"
  ELSE IF ~g.remote_allowed THEN "not_allowed"
  ELSE LET hsh == ObtainedHash(g.env_hash, g.env_object_name, g.url_hash)
       IN  IF ~Truthy(hsh) THEN "no_hash"
           ELSE IF ~int16(AfterDash(hsh.str)) THEN "bad_hash"
           ELSE "ok"

\* An edge request: its method, whether its remote address passes
\* allowed_origin_remote_ips, swift.cdn_hash and swift.cdn_object_name of the
\* environment, and the hash the URL yields.
EdgeGiven(methods, allowed, env_hashes, env_object_names, url_hashes) ==
  [surface : {"edge"}, method : methods, remote_allowed : allowed,
   env_hash : env_hashes, env_object_name : env_object_names,
   url_hash : url_hashes]

\* lines 369-403: up to the metadata lookup.
EdgeBegin(p, g, c) ==
  LET kind == EdgeEntry(g)
  IN  /\ Accept(p, Request("edge", g.method, c, kind))
      /\ UNCHANGED <<world, conf, memcache, backend, dispvars>>
      /\ CASE kind = "bad_method" ->
                Finish(p, Response(405, 0, "", "", CACHE_BAD_URL))
           [] kind = "not_allowed" -> Finish(p, PassedToApp)
           [] kind = "no_hash" ->
                Finish(p, Response(404, 0, "", "", CACHE_BAD_URL))
           [] kind = "bad_hash" ->
                Finish(p, Response(400, 0, "", "", CACHE_BAD_URL))
           [] OTHER ->
                /\ pc' = [pc EXCEPT ![p] = "get_cdn_data"]
                /\ resp' = [resp EXCEPT ![p] = NoResp]
                /\ hash_data' = [hash_data EXCEPT ![p] = None]
                /\ pending' = [pending EXCEPT ![p] = Absent]

\* An edge request comes in, among the requests that overlap or follow one
\* another.
EdgeRequest(p) ==
  /\ \E c \in Containers,
        g \in EdgeGiven(EdgeMethods, BOOLEAN, {NoStr}, {NoStr},
                        {NoStr, Str(<<"g">>), Str(<<"a">>)}) :
       EdgeBegin(p, g, c)
  /\ UNCHANGED sidevars

\* The edge request drawn is taken up.
EdgeArrive(p) ==
  /\ given.surface = "edge"
  /\ \E c \in Containers : EdgeBegin(p, given, c)
  /\ UNCHANGED sidevars

\* What the backend answers the proxied request with: the status, whether
\* Content-Length exceeds max_cdn_file_size, whether a Location header is set.
ObjectResponses ==
  [status : {200, 206, 301, 304, 404, 416, 500}, oversize : BOOLEAN,
   location : BOOLEAN]

\* A backing store that does not fail answers with the object, within the
\* size limit, or with 404.
ObjectAnswers ==
  IF world.faults THEN ObjectResponses
  ELSE {r \in ObjectResponses :
          r.status \in {200, 404} /\ ~r.oversize /\ ~r.location}

\* A response shaped without a look at Content-Length.
EdgeResponse_NoSizeCheck(r, ttl) ==
  IF r.status = 301 /\ r.location THEN Response(301, 0, "", "", ttl)
  ELSE IF r.status = 304 THEN Response(304, 0, "", "", ttl)
  ELSE IF r.status = 416 THEN Response(416, 0, "", "", CACHE_404)
  ELSE IF r.status \in {200, 206} THEN Response(r.status, 0, "", "", ttl)
  ELSE Response(404, 0, "", "", CACHE_404)

\* lines 415-451: the response shaped from the backend's.
EdgeResponse(r, ttl) ==
  IF r.status = 301 /\ r.location THEN Response(301, 0, "", "", ttl)
  ELSE IF r.status = 304 THEN Response(304, 0, "", "", ttl)
  ELSE IF r.status = 416 THEN Response(416, 0, "", "", CACHE_404)
  ELSE IF r.status \in {200, 206}
  THEN IF r.oversize THEN Response(400, 0, "", "", CACHE_404)
       ELSE Response(r.status, 0, "", "", ttl)
  ELSE Response(404, 0, "", "", CACHE_404)

\* lines 405-414: the request is proxied to the backend.
EdgeForward(p) ==
  /\ At(p, "edge_forward")
  /\ UNCHANGED <<world, conf, memcache, backend, req, cacheops, headers, hist,
                 dispvars, sidevars>>
  /\ \E r \in ObjectAnswers :
       /\ sent' = [sent EXCEPT ![p] =
            Append(@, [SubReq(req[p].method, "object", r.status)
                         EXCEPT !.oversize = r.oversize,
                                !.location = r.location])]
       /\ Finish(p, EdgeResponse(r, hash_data[p].ttl))

(***************************************************************************)
(* The cache drops an entry: its timeout has passed.                       *)
(***************************************************************************)
Expire(c) ==
  /\ ~Returning
  /\ memcache[c] # Absent
  /\ memcache' = [memcache EXCEPT ![c] = Absent]
  /\ UNCHANGED <<world, conf, backend, pc, req, hash_data, headers, pending, resp,
                 sent, cacheops, hist, dispvars, sidevars>>

(***************************************************************************)
(* OriginServer.__call__: the dispatcher. A Host header and a path are     *)
(* sequences of characters.                                                *)
(***************************************************************************)
SeqsUpTo(S, n) == UNION {[1..k -> S] : k \in 0..n}

HostChars == {"a", "b", ":"}
PathChars == {"/", "o"}

\* str.split(':')[0]: what precedes the first ':'
BeforeColon(host) ==
  LET colons == {i \in 1..Len(host) : host[i] = ":"}
  IN  IF colons = {} THEN host
      ELSE SubSeq(host, 1, (CHOOSE i \in colons : \A j \in colons : i <= j) - 1)

\* str.endswith
endswith(str, suffix) ==
  /\ Len(suffix) <= Len(str)
  /\ SubSeq(str, Len(str) - Len(suffix) + 1, Len(str)) = suffix

\* str.startswith
startswith(str, prefix) ==
  /\ Len(prefix) <= Len(str)
  /\ SubSeq(str, 1, Len(prefix)) = prefix

\* conf.get('origin_prefix'), here "/o"
origin_prefix == <<"/", "o">>

\* The configurations drawn: origin_db_hosts, and origin_cdn_host_suffixes
\* (not empty: __init__ raises InvalidConfiguration otherwise).
DbHostsChoices == SUBSET {<<"a">>, <<"a", "b">>}
CdnSuffixChoices == (SUBSET {<<"b">>, <<"a", "b">>}) \ {{}}

NoEnv == [HTTP_HOST |-> <<>>, PATH_INFO |-> <<>>, origin_db_hosts |-> {},
          origin_cdn_host_suffixes |-> {}]

\* ChooseHandler with the three tests as an if / elif chain.
ChooseHandler_FirstWins(env) ==
  LET host == BeforeColon(env.HTTP_HOST)
  IN  IF host \in env.origin_db_hosts THEN "OriginDbHandler"
      ELSE IF \E cdn_host_suffix \in env.origin_cdn_host_suffixes :
                endswith(host, cdn_host_suffix)
      THEN "CdnHandler"
      ELSE IF startswith(env.PATH_INFO, origin_prefix) THEN "AdminHandler"
      ELSE "app"

\* lines 830-841: the handler is assigned three times over, so that the
\* last test that holds decides.
ChooseHandler(env) ==
  LET host == BeforeColon(env.HTTP_HOST)
      h1 == IF host \in env.origin_db_hosts THEN "OriginDbHandler" ELSE "None"
      h2 == IF \E cdn_host_suffix \in env.origin_cdn_host_suffixes :
                 endswith(host, cdn_host_suffix)
            THEN "CdnHandler" ELSE h1
      h3 == IF startswith(env.PATH_INFO, origin_prefix)
            THEN "AdminHandler" ELSE h2
  IN  IF h3 # "None" THEN h3 ELSE "app"

Dispatch ==
  /\ handler = "pending"
  /\ handler' = ChooseHandler(denv)
  /\ UNCHANGED <<denv, dbvars, sidevars>>

(***************************************************************************)
(* The specifications.                                                     *)
(***************************************************************************)
InitDb ==
  /\ memcache = [c \in Containers |-> Absent]
  /\ hash_obj = [c \in Containers |-> Absent]
  /\ listing_cont = FALSE
  /\ listing_child = [c \in Containers |-> NoChild]
  /\ pc = [p \in Procs |-> "idle"]
  /\ req = [p \in Procs |-> NoReq]
  /\ hash_data = [p \in Procs |-> None]
  /\ headers = [p \in Procs |-> NoHeaders]
  /\ pending = [p \in Procs |-> Absent]
  /\ resp = [p \in Procs |-> NoResp]
  /\ sent = [p \in Procs |-> <<>>]
  /\ cacheops = [p \in Procs |-> <<>>]
  /\ lastWrite = [c \in Containers |-> NoWrite]
  /\ expect = [p \in Procs |-> NoWrite]
  /\ clean = [p \in Procs |-> TRUE]

\* Requests served one at a time, by a backend that may fail.
Init ==
  /\ world = [concurrent |-> FALSE, faults |-> TRUE, flags |-> TRUE]
  /\ conf \in [hasCache : BOOLEAN, delete_enabled : BOOLEAN]
  /\ InitDb
  /\ denv = NoEnv
  /\ handler = "None"
  /\ given = NoGiven
  /\ prep = NoPrep
  /\ urls = NoUrls
  /\ listing = NoListing
  /\ shard = <<>>

\* The response has been returned: the slot is free again.
Retire(p) ==
  /\ pc[p] = "done"
  /\ pc' = [pc EXCEPT ![p] = "idle"]
  /\ req' = [req EXCEPT ![p] = NoReq]
  /\ resp' = [resp EXCEPT ![p] = NoResp]
  /\ sent' = [sent EXCEPT ![p] = <<>>]
  /\ cacheops' = [cacheops EXCEPT ![p] = <<>>]
  /\ headers' = [headers EXCEPT ![p] = NoHeaders]
  /\ expect' = [expect EXCEPT ![p] = NoWrite]
  /\ clean' = [clean EXCEPT ![p] = TRUE]
  /\ UNCHANGED <<world, conf, memcache, backend, hash_data, pending,
                 lastWrite, dispvars, sidevars>>

Next ==
  \/ \E p \in Procs :
       \/ DbRequest(p)
       \/ EdgeRequest(p)
       \/ GcdCacheGet(p)
       \/ GcdBackendGet(p)
       \/ GcdCacheSet(p)
       \/ PutHashObj(p)
       \/ PutCacheSet(p)
       \/ HeadListingCont(p)
       \/ PutListingCont(p)
       \/ PutListingChild(p)
       \/ DeleteCache(p)
       \/ DeleteHashObj(p)
       \/ DeleteListingChild(p)
       \/ EdgeForward(p)
       \/ Retire(p)
  \/ \E c \in Containers : Expire(c)

Spec == Init /\ [][Next]_vars

\* Database requests served one at a time for as long as none of them has
\* ended in a database failure: after the 500 that handle_request makes of
\* OriginDbFailure no further request is taken.
RetireUnfailed(p) ==
  /\ resp[p].status # 500
  /\ Retire(p)

NextUnfailed ==
  \/ \E p \in Procs :
       \/ DbRequest(p)
       \/ GcdCacheGet(p)
       \/ GcdBackendGet(p)
       \/ GcdCacheSet(p)
       \/ PutHashObj(p)
       \/ PutCacheSet(p)
       \/ HeadListingCont(p)
       \/ PutListingCont(p)
       \/ PutListingChild(p)
       \/ DeleteCache(p)
       \/ DeleteHashObj(p)
       \/ DeleteListingChild(p)
       \/ RetireUnfailed(p)
  \/ \E c \in Containers : Expire(c)

SpecUnfailed == Init /\ [][NextUnfailed]_vars

\* Requests that overlap, with X-TTL as their only header, served by a
\* backend that does not fail.
InitConc ==
  /\ world = [concurrent |-> TRUE, faults |-> FALSE, flags |-> FALSE]
  /\ conf = [hasCache |-> TRUE, delete_enabled |-> TRUE]
  /\ InitDb
  /\ denv = NoEnv
  /\ handler = "None"
  /\ given = NoGiven
  /\ prep = NoPrep
  /\ urls = NoUrls
  /\ listing = NoListing
  /\ shard = <<>>

SpecConc == InitConc /\ [][Next]_vars

InitDispatch ==
  /\ world = [concurrent |-> FALSE, faults |-> FALSE, flags |-> FALSE]
  /\ conf = [hasCache |-> TRUE, delete_enabled |-> TRUE]
  /\ InitDb
  /\ denv \in [HTTP_HOST : SeqsUpTo(HostChars, MaxHostLen),
               PATH_INFO : SeqsUpTo(PathChars, MaxPathLen),
               origin_db_hosts : DbHostsChoices,
               origin_cdn_host_suffixes : CdnSuffixChoices]
  /\ handler = "pending"
  /\ given = NoGiven
  /\ prep = NoPrep
  /\ urls = NoUrls
  /\ listing = NoListing
  /\ shard = <<>>

NextDispatch == Dispatch

SpecDispatch == InitDispatch /\ [][NextDispatch]_vars

(***************************************************************************)
(* split_path, on paths that are sequences of characters.                  *)
(***************************************************************************)
\* str.split(sep, maxsplit)
RECURSIVE split(_, _, _)
split(str, sep, maxsplit) ==
  LET seps == {i \in 1..Len(str) : str[i] = sep}
  IN  IF maxsplit = 0 \/ seps = {} THEN <<str>>
      ELSE LET i == CHOOSE k \in seps : \A j \in seps : k <= j
           IN  <<SubSeq(str, 1, i - 1)>>
                 \o split(SubSeq(str, i + 1, Len(str)), sep, maxsplit - 1)

\* split_path(path, minsegs, maxsegs, rest_with_last): ok is FALSE for the
\* ValueError; segs are the segments, None (NoStr) where there is none.
split_path(path, minsegs, maxsegs0, rest_with_last) ==
  LET maxsegs == IF maxsegs0 = 0 THEN minsegs ELSE maxsegs0
      mn == minsegs + 1
      mx == maxsegs + 1
      segs == IF rest_with_last THEN split(path, "/", maxsegs)
              ELSE split(path, "/", mx)
      count == Len(segs)
      empty == \E i \in 2..mn : i <= count /\ segs[i] = <<>>
      bad == IF rest_with_last
             THEN segs[1] # <<>> \/ count < mn \/ count > mx \/ empty
             ELSE \/ segs[1] # <<>> \/ count < mn \/ count > mx + 1 \/ empty
                  \/ (count = mx + 1 /\ segs[mx + 1] # <<>>)
  IN  IF minsegs > maxsegs \/ bad THEN [ok |-> FALSE, segs |-> <<>>]
      ELSE [ok |-> TRUE,
            segs |-> [i \in 1..(mx - 1) |->
                        IF i + 1 <= count THEN Str(segs[i + 1]) ELSE NoStr]]

(***************************************************************************)
(* AdminHandler                                                            *)
(***************************************************************************)
MaxUriLen == 5
MaxHashCont == 2

\* The characters of an admin path: "o" the name 'origin' of origin_prefix,
\* "p" the name '.prep'.
UriChars == {"/", "o", "p"}
dot_prep == <<"p">>
dot_origin_admin == <<"a">>

\* The response of a request that ends in an exception nothing catches.
Raised == -2

\* The paths preparation PUTs: the origin account, then its .hash_<i>
\* containers.
AccountPath == [hash_cont |-> FALSE, i |-> 0]
HashContPath(i) == [hash_cont |-> TRUE, i |-> i]

\* Preparation that numbers the containers from 1.
PrepPaths_FromOne(n) ==
  <<AccountPath>> \o [i \in 1..n |-> HashContPath(i)]

\* lines 319 and 325-327: the paths in the order of the PUTs.
PrepPaths(n) ==
  <<AccountPath>> \o [i \in 1..n |-> HashContPath(i - 1)]

\* lines 292-301
is_origin_admin(g) ==
  /\ Truthy(conf.admin_key)
  /\ g.admin_user = Str(dot_origin_admin)
  /\ g.admin_key = conf.admin_key

\* lines 311-317 and 335: up to the first PUT.
AdminArrive ==
  /\ given.surface = "admin"
  /\ prep.pc = "idle"
  /\ LET path == split_path(given.path, 2, 2, FALSE)
     IN  prep' =
           IF ~is_origin_admin(given)
           THEN [prep EXCEPT !.pc = "done", !.status = 403]
           ELSE IF ~path.ok
           THEN [prep EXCEPT !.pc = "done", !.status = 400]
           ELSE IF path.segs[2] = Str(dot_prep)
           THEN [prep EXCEPT !.pc = "put"]
           ELSE [prep EXCEPT !.pc = "done", !.status = 404]
  /\ UNCHANGED <<dbvars, dispvars, given, urls, listing, shard>>

\* lines 318-334: one PUT of the preparation, and what follows from its
\* status.
PrepPut ==
  /\ prep.pc = "put"
  /\ LET i == Len(prep.puts) + 1
         paths == PrepPaths(conf.num_hash_cont)
     IN  \E status \in {201} \cup Faults :
           prep' =
             [pc |-> IF ~Is2xx(status) \/ i = Len(paths) THEN "done"
                     ELSE "put",
              puts |-> Append(prep.puts, [path |-> paths[i],
                                          status |-> status]),
              status |-> IF ~Is2xx(status) THEN Raised
                         ELSE IF i = Len(paths) THEN 204 ELSE 0]
  /\ UNCHANGED <<dbvars, dispvars, given, urls, listing, shard>>

(***************************************************************************)
(* get_cdn_urls. A URL is kept as its parts: scheme, host, port and path.  *)
(***************************************************************************)
\* hmac_token_length is drawn from -MaxTokenTrim to MaxTokenLength.
MaxTokenTrim == 2
MaxTokenLength == 42
TokenLengths == (0 - MaxTokenTrim)..MaxTokenLength

\* The value of a hexadecimal digit, and int(hsh, 16) of a string of them.
HexValue(c) == CASE c = "1" -> 1 [] c = "a" -> 10 [] OTHER -> 0

RECURSIVE HexNumber(_)
HexNumber(hsh) ==
  IF hsh = <<>> THEN 0
  ELSE 16 * HexNumber(SubSeq(hsh, 1, Len(hsh) - 1)) + HexValue(hsh[Len(hsh)])

\* '%d' % n for n >= 0.
RECURSIVE Decimal(_)
Decimal(n) ==
  LET digit == <<"0", "1", "2", "3", "4", "5", "6", "7", "8", "9">>
  IN  IF n < 10 THEN <<digit[n + 1]>>
      ELSE Decimal(n \div 10) \o <<digit[(n % 10) + 1]>>

\* str.rstrip('/')
RECURSIVE rstrip(_)
rstrip(str) ==
  IF str # <<>> /\ str[Len(str)] = "/"
  THEN rstrip(SubSeq(str, 1, Len(str) - 1)) ELSE str

\* token[:n], Python's slice: a negative n counts from the end, and the slice
\* never reaches beyond the string.
slice_Whole(str, n) == str

slice(str, n) ==
  LET stop == IF n < 0 THEN Len(str) + n ELSE n
  IN  SubSeq(str, 1, IF stop < 0 THEN 0
                     ELSE IF stop > Len(str) THEN Len(str) ELSE stop)

\* hmac.new(key, msg, sha1).hexdigest(): SHA-1 itself is not computed. What
\* is kept of it: the digest has 40 hexadecimal digits and is a function of
\* the key and the message.
DigestLen == 40
Weight(str) ==
  LET RECURSIVE W(_)
      W(i) == IF i = 0 THEN 0
              ELSE W(i - 1) + i * (CASE str[i] = "c" -> 1 [] str[i] = "k" -> 2
                                     [] str[i] = "a" -> 3 [] str[i] = "1" -> 5
                                     [] OTHER -> 7)
  IN  W(Len(str))
hexdigest(key, msg) ==
  LET hex == <<"0", "1", "2", "3", "4", "5", "6", "7", "8", "9",
               "a", "b", "c", "d", "e", "f">>
  IN  [i \in 1..DigestLen |->
         hex[(((3 * Weight(key) + Weight(msg) + 1) * i) % 16) + 1]]

\* A format string of a section, in parts. In the host and the path, "%h"
\* is the placeholder %(hash)s and "%m" is %(hash_mod)d.
Url(scheme, host, port, path) ==
  [scheme |-> scheme, host |-> host, port |-> port, path |-> path]

\* url % url_vars, on one part of the URL.
RECURSIVE Interpolate(_, _)
Interpolate(part, url_vars) ==
  IF part = <<>> THEN <<>>
  ELSE (CASE part[1] = "%h" -> url_vars.hash
          [] part[1] = "%m" -> Decimal(url_vars.hash_mod)
          [] OTHER -> <<part[1]>>)
       \o Interpolate(Tail(part), url_vars)

\* (url % url_vars).rstrip('/'): only a path can end in '/'.
Render(url, url_vars) ==
  Url(url.scheme, Interpolate(url.host, url_vars), url.port,
      rstrip(Interpolate(url.path, url_vars)))

\* urlparse(url).hostname: the host in lower case, without the port.
hostname(url) ==
  [i \in 1..Len(url.host) |-> IF url.host[i] = "C" THEN "c" ELSE url.host[i]]

\* The rewrite of one rendered URL when a secret is configured.
Signed(url) ==
  LET token == hexdigest(conf.hmac_signed_url_secret.str, hostname(url))
  IN  Url(url.scheme,
          slice(token, conf.token_length) \o <<"-">> \o hostname(url),
          NoStr, <<>>)

\* The name of a section of the configuration: <<>> is outgoing_url_format,
\* <<"get">> is outgoing_url_format_get and <<"get", "t">> is
\* outgoing_url_format_get_t.
section_names_GeneralFirst(request_type, request_format_tag) ==
  <<<<>>, <<request_type>>, <<request_type, request_format_tag>>>>

section_names(request_type, request_format_tag) ==
  <<<<request_type, request_format_tag>>, <<request_type>>, <<>>>>

\* conf.get(section_name): None where the file has no such section.
NoSection == [some |-> FALSE, keys |-> {}]
ConfGet(section_name) ==
  IF section_name \in DOMAIN conf.sections THEN conf.sections[section_name]
  ELSE NoSection

\* `if format_section`: the section is there and has at least one option.
HasFormat(section) == section.some /\ section.keys # {}

\* The first section of `names`, from position i on, that has a format;
\* 0 when there is none (the else of the for loop).
RECURSIVE FirstFormat(_, _)
FirstFormat(names, i) ==
  IF i > Len(names) THEN 0
  ELSE IF HasFormat(ConfGet(names[i])) THEN i
  ELSE FirstFormat(names, i + 1)

\* request_type.lower()
lower_method(request_type) ==
  CASE request_type = "GET" -> "get" [] request_type = "HEAD" -> "head"
    [] OTHER -> request_type

\* get_cdn_urls: ok = FALSE is InvalidConfiguration.
get_cdn_urls(hsh, request_type, request_format_tag) ==
  LET names == section_names(lower_method(request_type), request_format_tag)
      found == FirstFormat(names, 1)
      format_section == ConfGet(names[found])
      url_vars == [hash |-> hsh,
                   hash_mod |-> HexNumber(hsh) % conf.number_dns_shards]
      rendered == [key \in format_section.keys |->
                     Render(format_section.format[key], url_vars)]
  IN  IF found = 0 THEN [ok |-> FALSE, section |-> <<>>, out |-> <<>>]
      ELSE [ok |-> TRUE, section |-> names[found],
            out |-> IF Truthy(conf.hmac_signed_url_secret)
                    THEN [key \in format_section.keys |-> Signed(rendered[key])]
                    ELSE rendered]

\* One call of get_cdn_urls from a handler; InvalidConfiguration leaves the
\* handler and OriginServer.__call__ answers 500.
GetCdnUrls ==
  /\ given.surface = "urls"
  /\ urls.pc = "idle"
  /\ LET r == get_cdn_urls(given.hsh, given.request_type,
                           given.request_format_tag)
     IN  urls' = [pc |-> "done", ok |-> r.ok, section |-> r.section,
                  out |-> r.out, status |-> IF r.ok THEN 0 ELSE 500]
  /\ UNCHANGED <<dbvars, dispvars, given, prep, listing, shard>>

(***************************************************************************)
(* origin_db_get: the listing of an account. The names of the containers   *)
(* are the numbers 1, 2, ... in the order of the listing; the marker '' is *)
(* 0.                                                                      *)
(***************************************************************************)
MaxRows == 3
\* The number of rows the backend returns in one page at most.
ListingPageSize == 2

ListingNames == 1..MaxRows

\* get_param: the value of a query parameter, NoParam where there is none.
NoParam == "absent"

\* hash_path: MD5 itself is not computed; the hash is a string of
\* hexadecimal digits that is a function of the account and the container.
hash_path(container) ==
  IF container % 2 = 1 THEN <<"1">> ELSE <<"1", "a">>

\* A Content-Type that does not start with 'x-cdn/'.
OtherContentType == [kind |-> "text/plain", cdn |-> "", ttl |-> 0, log_ret |-> ""]

\* lines 489-498: the fields of a row's Content-Type; ok = FALSE is
\* InvalidContentType. A negative ttl is rendered with a '-' of its own, and
\* the split does not give three fields then.
ParseContentType(cdn_data) ==
  IF cdn_data.kind # "x-cdn" \/ cdn_data.ttl < 0
  THEN [ok |-> FALSE, cdn_enabled |-> FALSE, ttl |-> 0, log_ret |-> FALSE]
  ELSE [ok |-> TRUE, cdn_enabled |-> lower(cdn_data.cdn) \in TRUE_VALUES,
        ttl |-> cdn_data.ttl, log_ret |-> lower(cdn_data.log_ret) \in TRUE_VALUES]

\* lines 535-546: list_format, enabled_only and limit of a request g.
ListFormat(g) == IF g.format \in {NoParam, ""} THEN g.format ELSE lower(g.format)
EnabledOnly(g) ==
  IF g.enabled \in {NoParam, ""} THEN [some |-> FALSE, val |-> FALSE]
  ELSE [some |-> TRUE, val |-> lower(g.enabled) \in TRUE_VALUES]
\* ok = FALSE is the ValueError of int(limit). Without the parameter the
\* limit is None; an empty one stays '', which no length reaches.
Limit(g) ==
  IF g.limit \in {NoParam, ""} THEN [ok |-> TRUE, some |-> FALSE, val |-> 0]
  ELSE [ok |-> int(g.limit).ok, some |-> TRUE, val |-> int(g.limit).val]

\* _parse_container_listing of one row: "raise" is InvalidContentType,
\* "config" is InvalidConfiguration from get_cdn_urls, "none" is a row the
\* filter drops.
_parse_container_listing(listing_dict, output_format, only_cdn_enabled) ==
  LET d == ParseContentType(listing_dict.content_type)
      cdn_urls == get_cdn_urls(hash_path(listing_dict.name), "GET",
                               output_format)
  IN  IF ~d.ok THEN [kind |-> "raise"]
      ELSE IF only_cdn_enabled.some /\ only_cdn_enabled.val # d.cdn_enabled
      THEN [kind |-> "none"]
      ELSE IF output_format \notin {"json", "xml"}
      THEN [kind |-> "row", name |-> listing_dict.name]
      ELSE IF ~cdn_urls.ok THEN [kind |-> "config"]
      ELSE [kind |-> "row", name |-> listing_dict.name,
            cdn_enabled |-> d.cdn_enabled, ttl |-> d.ttl,
            log_retention |-> d.log_ret, urls |-> cdn_urls.out]

\* lines 558-570: the loop over the rows of a page, from row i on, with the
\* rows formatted so far.
RECURSIVE FormatRows(_, _, _, _)
FormatRows(cont_listing, i, listing_formatted, g) ==
  IF i > Len(cont_listing) THEN [ok |-> TRUE, out |-> listing_formatted]
  ELSE IF Limit(g).some /\ g.limit # "" /\ ~(Len(listing_formatted) < Limit(g).val)
  THEN [ok |-> TRUE, out |-> listing_formatted]
  ELSE LET formatted_data ==
             _parse_container_listing(cont_listing[i], ListFormat(g),
                                      EnabledOnly(g))
       IN  IF formatted_data.kind = "config"
           THEN [ok |-> FALSE, out |-> <<>>]
           ELSE FormatRows(cont_listing, i + 1,
                           IF formatted_data.kind = "row"
                           THEN Append(listing_formatted, formatted_data)
                           ELSE listing_formatted, g)

\* What the backend answers a listing GET with marker m: the rows of the
\* listing container after m in the order of their names, a page at most.
RowsAfter(m) ==
  {n \in DOMAIN listing_child : n > m /\ listing_child[n] # NoChild}
RECURSIVE FirstRows(_, _)
FirstRows(names, k) ==
  IF k = 0 \/ names = {} THEN <<>>
  ELSE LET n == CHOOSE x \in names : \A y \in names : x <= y
       IN  <<[name |-> n, content_type |-> listing_child[n]]>>
             \o FirstRows(names \ {n}, k - 1)
BackendListing(m) == FirstRows(RowsAfter(m), ListingPageSize)

\* The follow-up request starts again from the marker ''.
new_marker_Restart(cont_listing) == 0

\* The marker of the follow-up request: the name of the first row.
new_marker_First(cont_listing) == cont_listing[1].name

\* lines 574-576: the marker of the follow-up request.
new_marker(cont_listing) == cont_listing[Len(cont_listing)].name

\* lines 523-546: the checks before the first listing GET.
ListingBegin(g) ==
  LET path == split_path(g.path, 2, 3, TRUE)
  IN  listing' =
        IF ~path.ok \/ ~Truthy(path.segs[2]) \/ ~Limit(g).ok
        THEN [listing EXCEPT !.pc = "done", !.status = 400]
        ELSE [listing EXCEPT !.pc = "get", !.marker = g.marker]

ListingArrive ==
  /\ given.surface = "listing"
  /\ listing.pc = "idle"
  /\ ListingBegin(given)
  /\ UNCHANGED <<dbvars, dispvars, given, prep, urls, shard>>

\* lines 548-602: one call of get_listings: the backend GET, the loop over
\* its rows, and either the follow-up call or the response.
ListingGet ==
  /\ listing.pc = "get"
  /\ \E status \in {IF listing_cont THEN 200 ELSE 404} \cup Faults :
       LET cont_listing == IF Is2xx(status) THEN BackendListing(listing.marker)
                           ELSE <<>>
           r == FormatRows(cont_listing, 1, <<>>, given)
           gets == Append(listing.gets,
                          [marker |-> listing.marker, status |-> status,
                           rows |-> cont_listing,
                           kept |-> IF Is2xx(status) THEN Len(r.out) ELSE 0])
       IN  listing' =
             IF status = 404
             THEN [listing EXCEPT !.pc = "done", !.gets = gets, !.status = 404]
             ELSE IF ~Is2xx(status) \/ ~r.ok
             THEN [listing EXCEPT !.pc = "done", !.gets = gets, !.status = 500]
             ELSE IF cont_listing # <<>> /\ r.out = <<>>
             THEN [listing EXCEPT !.gets = gets,
                                  !.marker = new_marker(cont_listing)]
             ELSE [listing EXCEPT !.pc = "done", !.gets = gets,
                                  !.out = r.out, !.status = 200]
  /\ UNCHANGED <<dbvars, dispvars, given, prep, urls, shard>>

(***************************************************************************)
(* One edge request, from its arrival to its response, over any contents   *)
(* of the cache and of the hash-shard object its hash names.               *)
(***************************************************************************)
MaxHashLen == 3

\* A body that is no JSON of a record.
Garbage == Val("garbage", 0, 0, FALSE, FALSE)

\* What the hash-shard object may hold: nothing, a record that is CDN-enabled,
\* one that is not, or a body that does not parse.
StoredChoices ==
  {Absent, get_json_str(HashData(1, 3, TRUE, FALSE)),
   get_json_str(HashData(1, 2, FALSE, FALSE)), Garbage}

InitSlots ==
  /\ pc = [p \in Procs |-> "idle"]
  /\ req = [p \in Procs |-> NoReq]
  /\ hash_data = [p \in Procs |-> None]
  /\ headers = [p \in Procs |-> NoHeaders]
  /\ pending = [p \in Procs |-> Absent]
  /\ resp = [p \in Procs |-> NoResp]
  /\ sent = [p \in Procs |-> <<>>]
  /\ cacheops = [p \in Procs |-> <<>>]
  /\ lastWrite = [c \in Containers |-> NoWrite]
  /\ expect = [p \in Procs |-> NoWrite]
  /\ clean = [p \in Procs |-> TRUE]

InitEdge ==
  /\ world = [concurrent |-> FALSE, faults |-> TRUE, flags |-> FALSE]
  /\ conf \in [hasCache : BOOLEAN, delete_enabled : {TRUE}]
  /\ memcache \in [Containers -> StoredChoices \cup {Sentinel404}]
  /\ hash_obj \in [Containers -> StoredChoices]
  /\ listing_cont = FALSE
  /\ listing_child = [c \in Containers |-> NoChild]
  /\ InitSlots
  /\ denv = NoEnv
  /\ handler = "None"
  /\ prep = NoPrep
  /\ urls = NoUrls
  /\ listing = NoListing
  /\ shard = <<>>
  /\ given \in EdgeGiven(EdgeMethods, BOOLEAN, {NoStr, Str(<<>>), Str(<<"a">>)},
                          {NoStr, Str(<<"o">>)},
                          {NoStr} \cup {Str(h) : h \in SeqsUpTo(HashChars,
                                                                MaxHashLen)})

NextEdge ==
  \E p \in Procs :
    \/ EdgeArrive(p)
    \/ GcdCacheGet(p)
    \/ GcdBackendGet(p)
    \/ GcdCacheSet(p)
    \/ EdgeForward(p)

SpecEdge == InitEdge /\ [][NextEdge]_vars

(***************************************************************************)
(* One request to AdminHandler.                                            *)
(***************************************************************************)
AdminKeys == {NoStr, Str(<<>>), Str(<<"k">>)}

InitAdmin ==
  /\ world = [concurrent |-> FALSE, faults |-> TRUE, flags |-> FALSE]
  /\ conf \in [hasCache : {TRUE}, delete_enabled : {TRUE},
               admin_key : AdminKeys, num_hash_cont : 0..MaxHashCont]
  /\ InitDb
  /\ denv = NoEnv
  /\ handler = "None"
  /\ prep = NoPrep
  /\ urls = NoUrls
  /\ listing = NoListing
  /\ shard = <<>>
  /\ given \in [surface : {"admin"}, method : {"POST", "GET"},
                admin_user : {NoStr, Str(dot_origin_admin), Str(<<"k">>)},
                admin_key : AdminKeys \cup {Str(<<"j">>)},
                path : {u \in SeqsUpTo(UriChars, MaxUriLen) :
                          startswith(u, origin_prefix)}]

NextAdmin == AdminArrive \/ PrepPut

SpecAdmin == InitAdmin /\ [][NextAdmin]_vars

(***************************************************************************)
(* One call of get_cdn_urls, over the configurations of the outgoing URL   *)
(* formats and of the signing.                                             *)
(***************************************************************************)
\* The sections of the configuration file that _translate_conf looks for
\* (get_t stands for outgoing_url_format_get_xml and _get_json), and the
\* format each has when it has one.
SectionNames == {<<"get", "t">>, <<"get">>, <<"head">>, <<>>}
FormatOf(section_name) ==
  CASE section_name = <<"get", "t">> ->
         [k \in {"X-CDN-URI"} |-> Url("http", <<"C", "%m">>, NoStr, <<"/">>)]
    [] section_name = <<"get">> ->
         [k \in {"X-CDN-URI"} |->
            Url("https", <<"c", "%h">>, Str(<<"8", "0">>), <<>>)]
    [] section_name = <<"head">> ->
         [k \in {"X-CDN-URI"} |-> Url("http", <<"c", "c">>, NoStr, <<"/", "c">>)]
    [] OTHER ->
         [k \in {"X-CDN-URI", "X-CDN-SSL-URI"} |->
            Url(IF k = "X-CDN-URI" THEN "http" ELSE "https", <<"c">>, NoStr,
                <<>>)]
SectionChoices(section_name) ==
  {NoSection,
   [some |-> TRUE, keys |-> {}],
   [some |-> TRUE, keys |-> DOMAIN FormatOf(section_name),
    format |-> FormatOf(section_name)]}

\* _translate_conf: a section of the file is copied into the configuration
\* of the handlers when it is there and not empty.
translate_conf(sos_conf) ==
  [n \in {m \in DOMAIN sos_conf : HasFormat(sos_conf[m])} |-> sos_conf[n]]

InitUrls ==
  /\ world = [concurrent |-> FALSE, faults |-> FALSE, flags |-> FALSE]
  /\ \E sections \in [SectionNames -> UNION {SectionChoices(n) : n \in SectionNames}],
        secret \in {NoStr, Str(<<>>), Str(<<"k">>)},
        token_length \in TokenLengths :
       /\ \A n \in SectionNames : sections[n] \in SectionChoices(n)
       /\ conf = [hasCache |-> TRUE, delete_enabled |-> TRUE,
                  sos_conf |-> sections,
                  sections |-> translate_conf(sections),
                  hmac_signed_url_secret |-> secret,
                  token_length |-> token_length, number_dns_shards |-> 3]
  /\ InitDb
  /\ denv = NoEnv
  /\ handler = "None"
  /\ prep = NoPrep
  /\ urls = NoUrls
  /\ listing = NoListing
  /\ shard = <<>>
  /\ given \in [surface : {"urls"}, hsh : {<<"a">>, <<"1", "a">>},
                request_type : {"GET", "HEAD"},
                request_format_tag : {"", "t"}]

NextUrls == GetCdnUrls

SpecUrls == InitUrls /\ [][NextUrls]_vars

(***************************************************************************)
(* One listing request, over the listings an account may have.             *)
(***************************************************************************)
\* What the Content-Type of a listing child may be: as PUT and POST write
\* it, one with a ttl that does not parse, or that of another object.
RowChoices ==
  {NoChild, _gen_listing_content_type(TRUE, 2, FALSE),
   _gen_listing_content_type(FALSE, 3, TRUE),
   _gen_listing_content_type(TRUE, -1, FALSE), OtherContentType}

ListingPaths ==
  {<<"/", "v", "/", "a">>, <<"/", "v", "/", "a", "/", "c">>, <<"/", "v", "/">>}

InitListing ==
  /\ world = [concurrent |-> FALSE, faults |-> TRUE, flags |-> FALSE]
  /\ \E general \in SectionChoices(<<>>) :
       conf = [hasCache |-> TRUE, delete_enabled |-> TRUE,
               sections |-> translate_conf([n \in {<<>>} |-> general]),
               hmac_signed_url_secret |-> NoStr, token_length |-> 30,
               number_dns_shards |-> 3]
  /\ memcache = [c \in Containers |-> Absent]
  /\ hash_obj = [c \in Containers |-> Absent]
  /\ listing_cont \in BOOLEAN
  /\ listing_child \in [ListingNames -> RowChoices]
  /\ ~listing_cont => \A n \in ListingNames : listing_child[n] = NoChild
  /\ InitSlots
  /\ denv = NoEnv
  /\ handler = "None"
  /\ prep = NoPrep
  /\ urls = NoUrls
  /\ listing = NoListing
  /\ shard = <<>>
  /\ given \in [surface : {"listing"}, path : ListingPaths, marker : {0, 1},
                format : {NoParam, "json"}, enabled : {NoParam, "True", "false"},
                limit : {NoParam, "", "0", "1", "abc"}]

NextListing == ListingArrive \/ ListingGet

SpecListing == InitListing /\ [][NextListing]_vars

\* The plain listing requests with a well-formed path, from the marker '',
\* without a limit or with the limit 0 or 1, over an existing listing
\* container.
InitListingFair ==
  /\ InitListing
  /\ listing_cont
  /\ DOMAIN conf.sections # {}
  /\ given.path = <<"/", "v", "/", "a">>
  /\ given.marker = 0
  /\ given.format = NoParam
  /\ given.limit \in {NoParam, "0", "1"}

\* The handler is sequential code: a step that can be taken is taken.
SpecListingFair ==
  InitListingFair /\ [][NextListing]_vars /\ WF_vars(NextListing)

(***************************************************************************)
(* get_hsh_obj_path, called by the handlers on one container key.          *)
(***************************************************************************)
MaxShards == 5
MaxShardCalls == 2

\* The characters of a key: two hexadecimal digits, a letter that is none,
\* and the sign.
KeyChars == {"1", "a", "g", "-"}

\* int(hsh, 16): ok = FALSE is ValueError. A sign may stand before the
\* digits.
int_base16(hsh) ==
  LET negative == hsh # <<>> /\ hsh[1] = "-"
      digits == IF negative THEN Tail(hsh) ELSE hsh
      ok == digits # <<>> /\ \A i \in 1..Len(digits) : digits[i] \in {"1", "a"}
  IN  [ok |-> ok,
       val |-> IF ~ok THEN 0
               ELSE IF negative THEN 0 - HexNumber(digits)
               ELSE HexNumber(digits)]

\* A shard index that keeps the sign of the number (a truncating remainder).
hsh_num_Truncating(number, num_hash_cont) ==
  IF number < 0 THEN 0 - ((0 - number) % num_hash_cont)
  ELSE number % num_hash_cont

\* line 194: Python's %, which has the sign of the divisor.
hsh_num(number, num_hash_cont) == number % num_hash_cont

\* lines 189-195: ok = FALSE is ValueError.
get_hsh_obj_path(hsh) ==
  LET n == int_base16(hsh)
  IN  IF ~n.ok THEN [ok |-> FALSE, cont |-> AccountPath, name |-> hsh]
      ELSE [ok |-> TRUE,
            cont |-> HashContPath(hsh_num(n.val, conf.num_hash_cont)),
            name |-> hsh]

\* The handlers that call get_hsh_obj_path.
ShardCallers == {"PUT", "POST", "HEAD", "DELETE", "edge"}

\* A key hash_path returns: an MD5 hexdigest has hexadecimal digits only.
IsHexDigest(hsh) ==
  hsh # <<>> /\ \A i \in 1..Len(hsh) : hsh[i] \in {"1", "a"}

\* One handler computes the path of the hash-shard object of the key. The
\* database handlers do it for the keys hash_path returns, the edge handler
\* for the key of the URL.
ShardCall ==
  /\ given.surface = "shard"
  /\ Len(shard) < MaxShardCalls
  /\ \E caller \in ShardCallers :
       /\ caller # "edge" => IsHexDigest(given.hsh)
       /\ shard' = Append(shard, [caller |-> caller,
                                  path |-> get_hsh_obj_path(given.hsh)])
  /\ UNCHANGED <<dbvars, dispvars, given, prep, urls, listing>>

InitShard ==
  /\ world = [concurrent |-> FALSE, faults |-> FALSE, flags |-> FALSE]
  /\ conf \in [hasCache : {TRUE}, delete_enabled : {TRUE},
               num_hash_cont : 1..MaxShards]
  /\ InitDb
  /\ denv = NoEnv
  /\ handler = "None"
  /\ prep = NoPrep
  /\ urls = NoUrls
  /\ listing = NoListing
  /\ shard = <<>>
  /\ given \in [surface : {"shard"}, hsh : SeqsUpTo(KeyChars, MaxHashLen)]

NextShard == ShardCall

SpecShard == InitShard /\ [][NextShard]_vars

(***************************************************************************)
(* One request to OriginDbHandler, of any method, over the contents the    *)
(* cache and the backing store may have.                                   *)
(***************************************************************************)
\* The statuses of the response an authorize callable refuses a request with.
AuthResponses == {401, 403}

\* split_path(req.path, 3, 3) of the handlers of HEAD, PUT, POST and DELETE.
PathKind(path) ==
  IF split_path(path, 3, 3, FALSE).ok THEN "ok" ELSE "invalid"

\* handle_request on the request drawn: a GET that authorize lets through is
\* origin_db_get, every other request is followed in slot p.
DbArrive(p) ==
  /\ given.surface = "db"
  /\ listing.pc = "idle"
  /\ IF given.method = "GET" /\ given.authorize # "deny"
     THEN /\ p = 1 /\ pc[p] = "idle"
          /\ ListingBegin(given)
          /\ UNCHANGED <<dbvars, dispvars, given, prep, urls, shard>>
     ELSE /\ \E c \in Containers :
               DbBegin(p, given.method, c, given.authorize, given.aresp,
                       PathKind(given.path))
          /\ UNCHANGED sidevars

InitDbOne ==
  /\ world = [concurrent |-> FALSE, faults |-> TRUE, flags |-> FALSE]
  /\ \E hasCache \in BOOLEAN, delete_enabled \in BOOLEAN :
       conf = [hasCache |-> hasCache, delete_enabled |-> delete_enabled,
               sections |-> translate_conf([n \in {<<>>} |-> NoSection]),
               hmac_signed_url_secret |-> NoStr, token_length |-> 30,
               number_dns_shards |-> 3]
  /\ memcache \in [Containers -> StoredChoices \cup {Sentinel404}]
  /\ hash_obj \in [Containers -> StoredChoices]
  /\ listing_cont \in BOOLEAN
  /\ listing_child \in [Containers ->
                          {NoChild, _gen_listing_content_type(TRUE, 3, FALSE)}]
  /\ ~listing_cont => \A c \in Containers : listing_child[c] = NoChild
  /\ InitSlots
  /\ denv = NoEnv
  /\ handler = "None"
  /\ prep = NoPrep
  /\ urls = NoUrls
  /\ listing = NoListing
  /\ shard = <<>>
  /\ given \in [surface : {"db"}, method : DbMethods \cup {"GET", "OPTIONS"},
                authorize : AuthResults, aresp : AuthResponses,
                path : {<<"/", "v", "/", "a", "/", "c">>, <<"/", "v", "/", "a">>},
                marker : {0}, format : {NoParam}, enabled : {NoParam, "True"},
                limit : {NoParam}]

NextDbOne ==
  \/ \E p \in Procs :
       \/ DbArrive(p)
       \/ GcdCacheGet(p)
       \/ GcdBackendGet(p)
       \/ GcdCacheSet(p)
       \/ PutHashObj(p)
       \/ PutCacheSet(p)
       \/ HeadListingCont(p)
       \/ PutListingCont(p)
       \/ PutListingChild(p)
       \/ DeleteCache(p)
       \/ DeleteHashObj(p)
       \/ DeleteListingChild(p)
  \/ ListingGet

SpecDbOne == InitDbOne /\ [][NextDbOne]_vars

(***************************************************************************)
(* One PUT or POST over a store that an earlier run has filled under       *)
(* other limits: min_ttl and max_ttl are read from the configuration each  *)
(* time the handler is built, so that a stored record may carry a ttl      *)
(* outside today's range.                                                  *)
(***************************************************************************)
TtlStoredChoices ==
  {Absent, get_json_str(HashData(1, max_ttl, TRUE, FALSE)),
   get_json_str(HashData(1, max_ttl + 1, TRUE, FALSE)),
   get_json_str(HashData(1, min_ttl - 1, FALSE, TRUE))}

InitDbTtl ==
  /\ world = [concurrent |-> FALSE, faults |-> TRUE, flags |-> FALSE]
  /\ \E hasCache \in BOOLEAN :
       conf = [hasCache |-> hasCache, delete_enabled |-> TRUE,
               sections |-> translate_conf([n \in {<<>>} |-> NoSection]),
               hmac_signed_url_secret |-> NoStr, token_length |-> 30,
               number_dns_shards |-> 3]
  /\ hash_obj \in [Containers -> TtlStoredChoices]
  /\ memcache \in [Containers -> TtlStoredChoices \cup {Sentinel404}]
  /\ \A c \in Containers :
       \/ memcache[c] = Absent
       \/ conf.hasCache /\ memcache[c] = hash_obj[c]
       \/ conf.hasCache /\ memcache[c] = Sentinel404 /\ hash_obj[c] = Absent
  /\ listing_cont \in BOOLEAN
  /\ listing_child = [c \in Containers |-> NoChild]
  /\ InitSlots
  /\ denv = NoEnv
  /\ handler = "None"
  /\ prep = NoPrep
  /\ urls = NoUrls
  /\ listing = NoListing
  /\ shard = <<>>
  /\ given \in [surface : {"db"}, method : {"PUT", "POST"},
                authorize : {"absent", "pass"}, aresp : AuthResponses,
                path : {<<"/", "v", "/", "a", "/", "c">>},
                marker : {0}, format : {NoParam}, enabled : {NoParam},
                limit : {NoParam}]

NextDbTtl ==
  \E p \in Procs :
    \/ DbArrive(p)
    \/ GcdCacheGet(p)
    \/ GcdBackendGet(p)
    \/ GcdCacheSet(p)
    \/ PutHashObj(p)
    \/ PutCacheSet(p)
    \/ HeadListingCont(p)
    \/ PutListingCont(p)
    \/ PutListingChild(p)

SpecDbTtl == InitDbTtl /\ [][NextDbTtl]_vars

(***************************************************************************)
(* The claims.                                                             *)
(***************************************************************************)
\* What the claims say of a dispatched request.
IsDbHost == BeforeColon(denv.HTTP_HOST) \in denv.origin_db_hosts
IsCdnHost ==
  \E suffix \in denv.origin_cdn_host_suffixes :
    endswith(BeforeColon(denv.HTTP_HOST), suffix)
IsAdminPath == startswith(denv.PATH_INFO, origin_prefix)
Dispatched == handler # "pending"

\* C1, as claimed: the handler is chosen by the precedence DB host, then CDN
\* host suffix, then origin_prefix, then the wrapped application; a request
\* whose Host is a DB host always goes to OriginDbHandler.
C1_DbHostFirst ==
  Dispatched =>
    handler = IF IsDbHost THEN "OriginDbHandler"
              ELSE IF IsCdnHost THEN "CdnHandler"
              ELSE IF IsAdminPath THEN "AdminHandler"
              ELSE "app"

\* C1, amended: the precedence is the reverse one. A path that begins with
\* origin_prefix goes to AdminHandler whatever the Host; otherwise a Host that
\* ends with a CDN host suffix goes to CdnHandler, also when it is a DB host;
\* otherwise a DB host goes to OriginDbHandler; otherwise the request is
\* passed to the wrapped application.
C1_AdminPathFirst ==
  Dispatched =>
    /\ IsAdminPath => handler = "AdminHandler"
    /\ ~IsAdminPath /\ IsCdnHost => handler = "CdnHandler"
    /\ ~IsAdminPath /\ ~IsCdnHost /\ IsDbHost => handler = "OriginDbHandler"
    /\ ~IsAdminPath /\ ~IsCdnHost /\ ~IsDbHost => handler = "app"

\* C1, witness: a request to a DB host that also matches a CDN suffix, with a
\* port in its Host header and a path under origin_prefix, has been dispatched.
C1_Witness ==
  /\ Dispatched /\ IsDbHost /\ IsCdnHost /\ IsAdminPath
  /\ denv.HTTP_HOST # BeforeColon(denv.HTTP_HOST)
  /\ handler = "AdminHandler"

\* What the claims say of the request in slot p.
Done(p) == pc[p] = "done"
IsDb(p, methods) ==
  req[p].surface = "db" /\ req[p].method \in methods /\ req[p].kind = "ok"
IsEdge(p) == req[p].surface = "edge" /\ req[p].kind = "ok"
\* The backend answered every sub-request of p as an object store does.
NoFault(p) == \A i \in DOMAIN sent[p] : sent[p][i].status \notin FaultStatuses
\* The sub-requests of p that write.
Writes(p) ==
  {i \in DOMAIN sent[p] : sent[p][i].method \in {"PUT", "POST", "DELETE"}}
\* The answer to a HEAD that shows the values of stored record rec.
Shows(r, rec) ==
  /\ r.status = 204
  /\ r.x_ttl = rec.ttl
  /\ r.x_cdn = (IF rec.cdn_enabled THEN "True" ELSE "False")
  /\ r.x_log = (IF rec.logs_enabled THEN "True" ELSE "False")

\* C2: requests run one after another; a HEAD that follows a PUT which returned
\* 201, with no write to the container in between, returns 204 with the ttl,
\* cdn_enabled and logs_enabled that the PUT stored (the backend answering the
\* HEAD's own GET, if it issues one, without failure).
C2_PutThenHead ==
  \A p \in Procs :
    Done(p) /\ IsDb(p, {"HEAD"}) /\ expect[p].op = "PUT" /\ NoFault(p)
      => Shows(resp[p], expect[p].rec)

\* C2, witness: such a HEAD has been answered from the cache, with values that
\* are not the defaults.
C2_Witness ==
  \E p \in Procs :
    /\ Done(p) /\ IsDb(p, {"HEAD"}) /\ expect[p].op = "PUT"
    /\ sent[p] = <<>>
    /\ resp[p] = Response(204, 3, "False", "True", 0)

\* C3: requests overlap; a HEAD that begins after a PUT or POST has returned
\* success (its cache write done, no write to the container since, none
\* overlapping it) returns the values of that write.
C3_ReadYourWrites ==
  \A p \in Procs :
    Done(p) /\ IsDb(p, {"HEAD"}) /\ expect[p].op \in {"PUT", "POST"}
      => Shows(resp[p], expect[p].rec)

\* C4: requests run one after another; a HEAD that follows a DELETE which
\* returned 204, itself following a PUT which returned 201, returns 404.
C4_PutDeleteHead ==
  \A p \in Procs :
    Done(p) /\ IsDb(p, {"HEAD"}) /\ expect[p].op = "DELETE"
            /\ expect[p].afterPut
      => resp[p].status = 404

\* C4, witness: such a HEAD has been answered, by a server that has a cache.
C4_Witness ==
  \E p \in Procs :
    /\ Done(p) /\ IsDb(p, {"HEAD"}) /\ expect[p].op = "DELETE"
    /\ expect[p].afterPut /\ conf.hasCache
    /\ resp[p].status = 404

\* C5: requests overlap; a HEAD or an edge request that begins after a DELETE
\* has returned 204, with no PUT or POST on the container since, finds the
\* record absent: it returns 404.
C5_DeleteVisible ==
  \A p \in Procs :
    Done(p) /\ (IsDb(p, {"HEAD"}) \/ IsEdge(p)) /\ expect[p].op = "DELETE"
      => resp[p].status = 404

\* C6: with a cache client, a lookup that finds the "404" sentinel in the cache
\* issues no GET of the hash-shard object; a HEAD or an edge request that finds
\* it issues no backend request at all and returns 404 (the edge request with
\* max-age 30). An edge request whose metadata GET got a backend 404 returns
\* 404 with max-age 30 and leaves the sentinel in the cache.
C6_NegativeCache ==
  \A p \in Procs :
    /\ cacheops[p] # <<>> /\ cacheops[p][1] = [op |-> "get", kind |-> "404"]
         => /\ \A i \in DOMAIN sent[p] :
                 ~(sent[p][i].method = "GET" /\ sent[p][i].target = "hash_obj")
            /\ IsDb(p, {"HEAD"}) \/ IsEdge(p)
                 => /\ Done(p) /\ sent[p] = <<>> /\ resp[p].status = 404
                    /\ IsEdge(p) => resp[p].max_age = 30
    /\ Done(p) /\ IsEdge(p) /\ conf.hasCache
       /\ sent[p] = <<SubReq("GET", "hash_obj", 404)>>
         => /\ resp[p].status = 404 /\ resp[p].max_age = 30
            /\ memcache[req[p].container] = Sentinel404

\* C6, witness: an edge GET has found the sentinel and has been answered.
C6_Witness ==
  \E p \in Procs :
    /\ Done(p) /\ IsEdge(p) /\ req[p].method = "GET"
    /\ cacheops[p] = <<[op |-> "get", kind |-> "404"]>>
    /\ sent[p] = <<>>
    /\ resp[p] = Response(404, 0, "", "", 30)

\* The X-TTL header h carries an integer outside [min_ttl, max_ttl].
OutOfRange(h) ==
  /\ h.x_ttl \in {"1", "2", "3", "4"}
  /\ LET n == CHOOSE k \in 1..4 : h.x_ttl = <<"1", "2", "3", "4">>[k]
     IN  n < min_ttl \/ n > max_ttl
\* Only a sub-request that writes changes what the backend stores.
BackendWrittenBySubRequest ==
  backend' # backend =>
    \E p \in Procs :
      /\ Len(sent'[p]) = Len(sent[p]) + 1
      /\ sent'[p][Len(sent'[p])].method \in {"PUT", "POST", "DELETE"}

\* C7, as stated: a PUT, or a POST on an existing record, whose X-TTL is an
\* integer outside [min_ttl, max_ttl] returns 400 and no backend sub-request
\* of any method is issued while handling it.
C7_NoBackendRequest ==
  \A p \in Procs :
    InFlight(p) /\ OutOfRange(headers[p])
      => Done(p) /\ resp[p].status = 400 /\ sent[p] = <<>>

\* C7, amended: a PUT, or a POST whose lookup found a record, whose X-TTL is an
\* integer outside [min_ttl, max_ttl] returns 400 without writing: it issues no
\* PUT, POST or DELETE sub-request, and at most the one GET of the hash-shard
\* object that the lookup of the existing record makes on a cache miss; the
\* backend's state changes only by a sub-request that writes.
C7_NoBackendWrite ==
  /\ [](\A p \in Procs :
          InFlight(p) /\ OutOfRange(headers[p])
            => /\ Done(p) /\ resp[p].status = 400
               /\ Writes(p) = {}
               /\ Len(sent[p]) <= 1
               /\ \A i \in DOMAIN sent[p] :
                    sent[p][i].method = "GET" /\ sent[p][i].target = "hash_obj")
  /\ [][BackendWrittenBySubRequest]_vars

\* C7, witness: a PUT with X-TTL above max_ttl has been answered 400 after its
\* lookup of the existing record went to the backend.
C7_Witness ==
  \E p \in Procs :
    /\ Done(p) /\ IsDb(p, {"PUT"}) /\ headers[p].x_ttl = "4"
    /\ resp[p].status = 400
    /\ sent[p] = <<SubReq("GET", "hash_obj", 404)>>

\* C8: a POST on a container whose record has been deleted (the DELETE has
\* returned 204 and no PUT or POST on the container followed) returns 404,
\* issues no backend PUT, POST or DELETE, and writes no record into the cache.
C8_PostNeverCreates ==
  \A p \in Procs :
    IsDb(p, {"POST"}) /\ expect[p].op = "DELETE"
      => /\ Writes(p) = {}
         /\ \A i \in DOMAIN cacheops[p] :
              cacheops[p][i] # [op |-> "set", kind |-> "json"]
         /\ Done(p) => resp[p].status = 404

\* The statuses a DELETE step tolerates: 2xx or 404.
Is2xxOr404(status) == (status >= 200 /\ status < 300) \/ status = 404

\* C9: with deletion enabled, the answer to a DELETE is decided by the
\* statuses of the two backend DELETEs (hash-shard object, then listing child,
\* which is issued only when the first is tolerated): 404 exactly when both are
\* 404, 204 when each is 2xx or 404 and at least one is 2xx, 500 when either
\* is any other status.
C9_DeleteStatus ==
  \A p \in Procs :
    Done(p) /\ IsDb(p, {"DELETE"})
      => /\ Len(sent[p]) \in {1, 2}
         /\ sent[p][1].method = "DELETE" /\ sent[p][1].target = "hash_obj"
         /\ IF Len(sent[p]) = 1
            THEN ~Is2xxOr404(sent[p][1].status) /\ resp[p].status = 500
            ELSE LET s1 == sent[p][1].status
                     s2 == sent[p][2].status
                 IN  /\ sent[p][2].method = "DELETE"
                     /\ sent[p][2].target = "listing_child"
                     /\ Is2xxOr404(s1)
                     /\ resp[p].status =
                          (IF ~Is2xxOr404(s2) THEN 500
                           ELSE IF s1 = 404 /\ s2 = 404 THEN 404 ELSE 204)

\* C9, witness: a DELETE whose first step found nothing and whose second step
\* deleted the listing child has been answered 204.
C9_Witness ==
  \E p \in Procs :
    /\ Done(p) /\ IsDb(p, {"DELETE"})
    /\ sent[p] = <<SubReq("DELETE", "hash_obj", 404),
                   SubReq("DELETE", "listing_child", 204)>>
    /\ resp[p].status = 204

\* The value a field of the new record takes: the header's when the header is
\* present, else the found record's when one was found, else the default.
Inherit(present, fromHeader, old, fromOld, default) ==
  IF present THEN fromHeader ELSE IF old # None THEN fromOld ELSE default

\* C10: the record a PUT or POST is about to store has, for each of ttl,
\* cdn_enabled and logs_enabled, the value of the header when the header is
\* present, else the value of the record that existed before (the record in the
\* hash-shard object, when the backend answered the lookup without failure),
\* else the default (default_ttl, true, false); and the backend PUT that
\* succeeds stores exactly that record.
C10_StoredRecord ==
  /\ [](\A p \in Procs :
          pc[p] = "put_hash_obj"
            => LET h == headers[p]
                   old == hash_data[p]
                   new == pending[p]
                   c == req[p].container
               IN  /\ new.kind = "json" /\ new.container = c
                   /\ new.ttl = Inherit(h.x_ttl # NoHeader, int(h.x_ttl).val,
                                        old, old.ttl, default_ttl)
                   /\ new.cdn_enabled = Inherit(h.x_cdn # NoHeader,
                                                h.x_cdn = "True",
                                                old, old.cdn_enabled, TRUE)
                   /\ new.logs_enabled = Inherit(h.x_log # NoHeader,
                                                 h.x_log = "True",
                                                 old, old.logs_enabled, FALSE)
                   /\ NoFault(p) =>
                        IF hash_obj[c] = Absent THEN old = None
                        ELSE /\ old # None
                             /\ hash_obj[c] = Val("json", old.container, old.ttl,
                                                  old.cdn_enabled,
                                                  old.logs_enabled))
  /\ [][\A p \in Procs :
          pc[p] = "put_hash_obj" /\ pc'[p] \notin {"put_hash_obj", "done"}
            => hash_obj'[req[p].container] = pending[p]]_vars

\* C10, witness: a POST that sets X-Log-Retention alone is about to store a
\* record that takes its ttl and cdn_enabled, neither of them the default, from
\* the record it found.
C10_Witness ==
  \E p \in Procs :
    /\ pc[p] = "put_hash_obj" /\ IsDb(p, {"POST"})
    /\ headers[p] = [x_ttl |-> NoHeader, x_cdn |-> NoHeader, x_log |-> "True"]
    /\ hash_data[p] = HashData(1, 3, FALSE, FALSE)
    /\ pending[p] = Val("json", 1, 3, FALSE, TRUE)

\* What the claims say of the edge request drawn.
EnabledRecord(v) == v.kind = "json" /\ v.cdn_enabled
\* The record the lookup of p came back with, seen from its end: the cache
\* entry where there is a cache (found there, or put there from the backend),
\* the hash-shard object where there is none.
Resolved(p) ==
  IF conf.hasCache THEN memcache[req[p].container]
  ELSE hash_obj[req[p].container]
\* The sub-requests of p for the object path.
ObjectRequests(p) == {i \in DOMAIN sent[p] : sent[p][i].target = "object"}
\* p was stopped with this status and the bad-URL cache headers, before any
\* cache or backend access.
Rejected(p, status) ==
  /\ Done(p)
  /\ resp[p].status = status /\ resp[p].max_age = 86400
  /\ sent[p] = <<>> /\ cacheops[p] = <<>>

\* C11: an edge GET or HEAD whose hash resolves to no record, or to a record
\* with cdn_enabled false, returns 404 with max-age 30, and no sub-request for
\* the object path is issued; an edge request that issued none returns 404
\* with max-age 30.
C11_DisabledNotServed ==
  \A p \in Procs :
    Done(p) /\ IsEdge(p)
      => /\ ~EnabledRecord(Resolved(p)) => ObjectRequests(p) = {}
         /\ ObjectRequests(p) = {}
              => resp[p].status = 404 /\ resp[p].max_age = 30

\* C11, witness: an edge HEAD whose hash names a record that is not
\* CDN-enabled has read the record from the backend and been answered 404.
C11_Witness ==
  \E p \in Procs :
    /\ Done(p) /\ IsEdge(p) /\ req[p].method = "HEAD"
    /\ hash_obj[req[p].container] = get_json_str(HashData(1, 2, FALSE, FALSE))
    /\ sent[p] = <<SubReq("GET", "hash_obj", 200)>>
    /\ resp[p].status = 404 /\ resp[p].max_age = 30

\* The response-shaping table: status and cache lifetime, from the backend's
\* answer s and the record's ttl.
Shaped(s, ttl) ==
  CASE s.status \in {200, 206} /\ ~s.oversize -> <<s.status, ttl>>
    [] s.status \in {200, 206} /\ s.oversize -> <<400, 30>>
    [] s.status = 301 /\ s.location -> <<301, ttl>>
    [] s.status = 304 -> <<304, ttl>>
    [] s.status = 416 -> <<416, 30>>
    [] OTHER -> <<404, 30>>

\* C12: an edge request on a CDN-enabled record issues one sub-request for the
\* object, with its own method, and its status and cache lifetime follow from
\* the backend's answer by the response-shaping table.
C12_ResponseShaping ==
  \A p \in Procs :
    Done(p) /\ IsEdge(p) /\ ObjectRequests(p) # {}
      => LET s == sent[p][Len(sent[p])]
         IN  /\ ObjectRequests(p) = {Len(sent[p])}
             /\ s.method = req[p].method
             /\ EnabledRecord(Resolved(p))
             /\ <<resp[p].status, resp[p].max_age>> = Shaped(s, Resolved(p).ttl)

\* C12, witness: the backend answered an edge GET with a 200 whose
\* Content-Length is above max_cdn_file_size, and the edge answer is 400.
C12_Witness ==
  \E p \in Procs :
    /\ Done(p) /\ IsEdge(p) /\ req[p].method = "GET"
    /\ sent[p] # <<>>
    /\ sent[p][Len(sent[p])] =
         [SubReq("GET", "object", 200) EXCEPT !.oversize = TRUE]
    /\ resp[p].status = 400 /\ resp[p].max_age = 30

\* Not hexadecimal: empty, or holding a character that is no hex digit.
NotHex(hsh) == hsh = <<>> \/ \E i \in 1..Len(hsh) : hsh[i] \notin HexDigits

\* C13: the edge handler stops a malformed request before any cache or
\* backend access, with the 86400 s cache headers: 405 for a method other than
\* GET and HEAD; 404 when no hash is obtained; 400 when the hash, after
\* dropping everything up to the first '-', is not hexadecimal.
C13_MalformedRejected ==
  \A p \in Procs :
    InFlight(p) /\ req[p].surface = "edge" /\ given.surface = "edge"
      => LET hsh == ObtainedHash(given.env_hash, given.env_object_name,
                                 given.url_hash)
             served == given.method \in {"GET", "HEAD"} /\ given.remote_allowed
         IN  /\ given.method \notin {"GET", "HEAD"} => Rejected(p, 405)
             /\ served /\ ~Truthy(hsh) => Rejected(p, 404)
             /\ served /\ Truthy(hsh) /\ NotHex(AfterDash(hsh.str))
                  => Rejected(p, 400)

\* C18: an edge GET or HEAD from a remote address that
\* allowed_origin_remote_ips does not list is handed to the wrapped
\* application, with no cache access and no backend request made for it.
C18_NotAllowedPassedOn ==
  \A p \in Procs :
    InFlight(p) /\ req[p].surface = "edge" /\ given.surface = "edge"
    /\ given.method \in {"GET", "HEAD"} /\ ~given.remote_allowed
      => /\ Done(p) /\ resp[p] = PassedToApp
         /\ sent[p] = <<>> /\ cacheops[p] = <<>>

\* C18, witness: such a request, whose hash names a CDN-enabled record in the
\* cache, has been handed on.
C18_Witness ==
  \E p \in Procs :
    /\ Done(p) /\ req[p].surface = "edge" /\ given.surface = "edge"
    /\ given.method = "GET" /\ ~given.remote_allowed
    /\ given.url_hash = Str(<<"a">>)
    /\ conf.hasCache /\ EnabledRecord(memcache[req[p].container])
    /\ resp[p] = PassedToApp


\* The request of SpecAdmin passed is_origin_admin.
AdminAccepted ==
  given.surface = "admin" /\ is_origin_admin(given)

\* The preparation has issued every PUT and each was answered 2xx.
AllPutsOk ==
  /\ Len(prep.puts) = conf.num_hash_cont + 1
  /\ \A i \in 1..Len(prep.puts) : Is2xx(prep.puts[i].status)

\* C14: the preparation PUTs /v1/<origin_account>, then .hash_0 up to
\* .hash_<N-1> in this order, each only after the one before it was answered
\* 2xx; it answers 204 exactly when all N+1 PUTs were answered 2xx, and at
\* the first other answer it issues no further PUT and ends in an error.
C14_PrepOrder ==
  given.surface = "admin" =>
    /\ Len(prep.puts) <= conf.num_hash_cont + 1
    /\ \A i \in 1..Len(prep.puts) :
         /\ prep.puts[i].path =
              (IF i = 1 THEN AccountPath ELSE HashContPath(i - 2))
         /\ i < Len(prep.puts) => Is2xx(prep.puts[i].status)
    /\ (prep.status = 204) = (prep.pc = "done" /\ AllPutsOk)
    /\ (\E i \in 1..Len(prep.puts) : ~Is2xx(prep.puts[i].status))
         => prep.pc = "done" /\ prep.status = Raised
    /\ prep.puts # <<>> /\ prep.pc = "done"
         => prep.status \in {204, Raised}

\* The preparation went through two containers and answered 204.
C14_Witness ==
  /\ prep.pc = "done" /\ prep.status = 204
  /\ conf.num_hash_cont = 2 /\ Len(prep.puts) = 3

\* The path of the preparation: '.prep' under origin_prefix.
IsPrepUri(path) == path = origin_prefix \o <<"/">> \o dot_prep

\* C15: a request without the right admin headers, or when no admin key is
\* configured, is answered 403 without a backend request; with the right
\* headers only POST <origin_prefix>.prep runs the preparation, and every
\* other request is answered 404 without a backend request.
C15_AdminOnlyPostPrep ==
  given.surface = "admin" /\ prep.pc # "idle" =>
    IF ~AdminAccepted
    THEN prep.pc = "done" /\ prep.status = 403 /\ prep.puts = <<>>
    ELSE IF given.method = "POST" /\ IsPrepUri(given.path)
    THEN prep.pc = "done" => prep.status \in {204, Raised}
    ELSE prep.pc = "done" /\ prep.status = 404 /\ prep.puts = <<>>

\* The URL get_cdn_urls rendered for `key` before the signing.
RenderedUrl(key) ==
  Render(ConfGet(urls.section).format[key],
         [hash |-> given.hsh,
          hash_mod |-> HexNumber(given.hsh) % conf.number_dns_shards])

\* The token of a signed URL: what stands before '-<original_host>'.
TokenOf(key) ==
  SubSeq(urls.out[key].host, 1,
         Len(urls.out[key].host) - Len(hostname(RenderedUrl(key))) - 1)

\* Every URL returned has the form <scheme>://<token>-<original_host>, the
\* token a function of the secret and the host.
SignedForm ==
  \A key \in DOMAIN urls.out :
    LET url == RenderedUrl(key)
    IN  /\ Len(urls.out[key].host) > Len(hostname(url))
        /\ urls.out[key] =
             Url(url.scheme, TokenOf(key) \o <<"-">> \o hostname(url),
                 NoStr, <<>>)
        /\ TokenOf(key) =
             SubSeq(hexdigest(conf.hmac_signed_url_secret.str, hostname(url)),
                    1, Len(TokenOf(key)))
        /\ \A other \in DOMAIN urls.out :
             hostname(RenderedUrl(other)) = hostname(url)
               => TokenOf(other) = TokenOf(key)

\* get_cdn_urls returned URLs and a secret is configured.
SignedCall ==
  /\ given.surface = "urls" /\ urls.pc = "done" /\ urls.ok
  /\ Truthy(conf.hmac_signed_url_secret)

\* C19 as stated: with a secret configured every URL returned by
\* get_cdn_urls is <scheme>://<token>-<original_host>, the token the same for
\* the same secret and host, and the token has hmac_token_length characters
\* for every configured hmac_token_length.
C19_TokenLengthAlways ==
  SignedCall =>
    /\ SignedForm
    /\ \A key \in DOMAIN urls.out : Len(TokenOf(key)) = conf.token_length

\* C19, amended: the token has hmac_token_length characters when that value
\* is between 0 and the 40 digits of the digest; a larger value gives the 40
\* digits, and a negative value n gives the digest without its last -n digits.
C19_TokenLengthWithinDigest ==
  SignedCall =>
    /\ SignedForm
    /\ \A key \in DOMAIN urls.out :
         Len(TokenOf(key)) =
           (IF conf.token_length > DigestLen THEN DigestLen
            ELSE IF conf.token_length >= 0 THEN conf.token_length
            ELSE IF DigestLen + conf.token_length > 0
            THEN DigestLen + conf.token_length ELSE 0)

\* Two URLs of one host were signed with a token of the default 30 digits.
C19_Witness ==
  /\ SignedCall
  /\ conf.token_length = 30
  /\ DOMAIN urls.out = {"X-CDN-URI", "X-CDN-SSL-URI"}
  /\ Len(TokenOf("X-CDN-URI")) = 30
  /\ TokenOf("X-CDN-URI") = TokenOf("X-CDN-SSL-URI")

\* The three sections of a call, from the most specific one.
SpecificSection == <<lower_method(given.request_type), given.request_format_tag>>
MethodSection == <<lower_method(given.request_type)>>
GeneralSection == <<>>
Present(section_name) == HasFormat(ConfGet(section_name))

\* C20: get_cdn_urls renders from the first present (non-empty) section in
\* the order outgoing_url_format_<method>_<tag>, outgoing_url_format_<method>,
\* outgoing_url_format; a less specific section is used only when every more
\* specific one is absent, and with none present the call fails with the
\* invalid-configuration error, which is answered 500.
C20_FirstPresentSection ==
  given.surface = "urls" /\ urls.pc = "done" =>
    /\ urls.ok = (Present(SpecificSection) \/ Present(MethodSection)
                    \/ Present(GeneralSection))
    /\ ~urls.ok => urls.status = 500 /\ urls.out = <<>>
    /\ urls.ok =>
         /\ urls.section =
              (IF Present(SpecificSection) THEN SpecificSection
               ELSE IF Present(MethodSection) THEN MethodSection
               ELSE GeneralSection)
         /\ DOMAIN urls.out = ConfGet(urls.section).keys
         /\ ~Truthy(conf.hmac_signed_url_secret) =>
              \A key \in DOMAIN urls.out : urls.out[key] = RenderedUrl(key)

\* The most specific section is in the file but empty, the other two have formats,
\* and the URLs come from the section of the method.
C20_Witness ==
  /\ given.surface = "urls" /\ urls.pc = "done" /\ urls.ok
  /\ SpecificSection \in DOMAIN conf.sos_conf
  /\ conf.sos_conf[SpecificSection].some /\ ~Present(SpecificSection)
  /\ Present(MethodSection) /\ Present(GeneralSection)
  /\ urls.section = MethodSection
  /\ DOMAIN urls.out = {"X-CDN-URI"}

\* The listing request of SpecListing carries the enabled filter.
FilterSet == given.surface = "listing" /\ EnabledOnly(given).some

\* A listing GET that returned rows of which none was kept.
NoneKept(get) == Is2xx(get.status) /\ get.rows # <<>> /\ get.kept = 0

\* C16: with the enabled filter set, a listing page that returned rows of
\* which none was kept is followed by a listing GET whose marker is the name
\* of the last row of that page, and this is repeated until a page yields a
\* kept row or is empty; the list returned has only rows whose cdn_enabled
\* equals the filter.
C16_RequeryFromLastRow ==
  FilterSet =>
    /\ \A i \in 1..Len(listing.gets) - 1 :
         /\ NoneKept(listing.gets[i])
         /\ listing.gets[i + 1].marker =
              listing.gets[i].rows[Len(listing.gets[i].rows)].name
    /\ listing.gets # <<>> /\ NoneKept(listing.gets[Len(listing.gets)])
         => \/ listing.pc = "get"
               /\ listing.marker =
                    listing.gets[Len(listing.gets)].rows[
                      Len(listing.gets[Len(listing.gets)].rows)].name
            \/ listing.pc = "done" /\ listing.status = 500
    /\ listing.pc = "done" /\ listing.status = 200
         => \A i \in 1..Len(listing.out) :
              /\ listing_child[listing.out[i].name].kind = "x-cdn"
              /\ (lower(listing_child[listing.out[i].name].cdn) \in TRUE_VALUES)
                   = EnabledOnly(given).val

\* A page of two rows that the filter dropped was followed by a page that
\* had a row to return.
C16_Witness ==
  /\ FilterSet
  /\ listing.pc = "done" /\ listing.status = 200
  /\ Len(listing.gets) = 2
  /\ Len(listing.gets[1].rows) = ListingPageSize
  /\ listing.gets[2].marker = listing.gets[1].rows[ListingPageSize].name
  /\ Len(listing.out) = 1

\* The request of SpecDbOne carries an authorize callable that returns a
\* response.
Refused == given.surface = "db" /\ given.authorize = "deny"

\* C17: on the DB surface an authorize callable is invoked before anything
\* else, and the response it returns is returned as is: for every method
\* there is no cache read or write and no backend request, and no record,
\* listing container or listing child changes.
C17_AuthorizeFirst ==
  [][Refused =>
       /\ pc'[1] = "done" /\ resp'[1] = Plain(given.aresp)
       /\ \A p \in Procs : sent'[p] = <<>> /\ cacheops'[p] = <<>>
       /\ listing' = NoListing
       /\ memcache' = memcache /\ hash_obj' = hash_obj
       /\ listing_cont' = listing_cont /\ listing_child' = listing_child]_vars

\* A listing GET was refused with 401 over a store that holds a record and
\* its listing child.
C17_Witness ==
  /\ Refused /\ given.method = "GET"
  /\ pc[1] = "done" /\ resp[1] = Plain(401)
  /\ \E c \in Containers : hash_obj[c] # Absent /\ listing_child[c] # NoChild

\* The containers the preparation creates for N hash containers.
PreparedContainers ==
  {PrepPaths(conf.num_hash_cont)[i] : i \in 2..(conf.num_hash_cont + 1)}

\* C21: for every container key the shard index int(key, 16) mod N lies in
\* [0, N), N = number_hash_id_containers (at least 1), so the hash-shard object
\* path a handler addresses names one of the containers .hash_0 .. .hash_<N-1>
\* the preparation creates, and the same key always gives the same path.
C21_ShardInRange ==
  given.surface = "shard" =>
    \A i \in 1..Len(shard) :
      /\ shard[i].path.ok = int_base16(given.hsh).ok
      /\ shard[i].path.ok =>
           /\ shard[i].path.cont.hash_cont
           /\ shard[i].path.cont.i >= 0
           /\ shard[i].path.cont.i < conf.num_hash_cont
           /\ shard[i].path.cont \in PreparedContainers
           /\ shard[i].path.name = given.hsh
           /\ \A j \in 1..Len(shard) : shard[j].path = shard[i].path

\* Two handlers addressed the key 'a1' (161) with three hash containers, both
\* at .hash_2.
C21_Witness ==
  /\ given.surface = "shard" /\ given.hsh = <<"a", "1">>
  /\ conf.num_hash_cont = 3
  /\ Len(shard) = 2 /\ shard[1].caller # shard[2].caller
  /\ shard[1].path.ok /\ shard[1].path.cont = HashContPath(2)
  /\ shard[2].path = shard[1].path

\* C23: on a cache miss where the backend GET is answered 2xx with a body
\* that does not parse as a record, the lookup performs no cache write: no
\* step puts into the cache a value that is neither the "404" sentinel nor a
\* serialized record that parses.
C23_NoUnparsableCached ==
  [][\A c \in Containers :
       memcache'[c] # memcache[c] /\ memcache'[c] # Absent
         => memcache'[c] = Sentinel404 \/ create_from_json(memcache'[c]) # None]_vars

\* Slot p serves a PUT or POST of the database surface.
PutOrPost(p) == req[p].surface = "db" /\ req[p].method \in {"PUT", "POST"}

\* A sub-request of step 1, 3 or 4 of PUT/POST that was answered non-2xx,
\* the 404 of the HEAD of the listing container aside.
FailedStep(sub) ==
  /\ sub.method # "GET"
  /\ ~Is2xx(sub.status)
  /\ ~(sub.method = "HEAD" /\ sub.target = "listing_cont" /\ sub.status = 404)

\* C22: in PUT/POST a non-2xx answer to the PUT of the hash-shard object, to
\* the HEAD of the listing container (or the PUT that creates it after a 404)
\* or to the PUT/POST of the listing child ends the request with 500, and no
\* later step is executed.
C22_FailureStops ==
  \A p \in Procs :
    PutOrPost(p) =>
      \A i \in 1..Len(sent[p]) :
        FailedStep(sent[p][i]) =>
          /\ i = Len(sent[p])
          /\ pc[p] = "done" /\ resp[p].status = 500

\* The step of slot p that PUTs the hash-shard object, and the one that
\* writes the new record into the cache.
BackendPutStep(p) == pc[p] = "put_hash_obj" /\ pc'[p] # "put_hash_obj"
NewRecordCached(p) == pc[p] = "put_cache_set" /\ pc'[p] # "put_cache_set"

\* C24: PUT/POST writes the new serialized record into the cache only after
\* the backend PUT of the hash-shard object was answered 2xx; when that PUT is
\* answered non-2xx the cache entry is left as it was, no listing-container or
\* listing-child request is issued and the request ends with 500.
C24_CacheAfterBackendPut ==
  [][\A p \in Procs :
       PutOrPost(p) =>
         /\ NewRecordCached(p) =>
              /\ sent[p] # <<>>
              /\ sent[p][Len(sent[p])] = SubReq("PUT", "hash_obj", 201)
              /\ memcache'[req[p].container] = hash_obj[req[p].container]
         /\ BackendPutStep(p) /\ ~Is2xx(sent'[p][Len(sent'[p])].status) =>
              /\ memcache' = memcache
              /\ pc'[p] = "done" /\ resp'[p].status = 500
         /\ \A i \in 1..Len(sent'[p]) :
              sent'[p][i].method = "PUT" /\ sent'[p][i].target = "hash_obj"
                /\ ~Is2xx(sent'[p][i].status)
              => i = Len(sent'[p]) /\ pc'[p] = "done"]_vars

\* A PUT whose backend PUT failed over a cached record: the cache still holds
\* that record, and the only PUT issued is the failed one.
C24_Witness ==
  \E p \in Procs :
    /\ PutOrPost(p) /\ pc[p] = "done" /\ resp[p].status = 500
    /\ conf.hasCache
    /\ sent[p] # <<>>
    /\ sent[p][Len(sent[p])].target = "hash_obj"
    /\ sent[p][Len(sent[p])].method = "PUT"
    /\ create_from_json(memcache[req[p].container]) # None

\* Slot p serves a DELETE of the database surface.
IsDelete(p) == req[p].surface = "db" /\ req[p].method = "DELETE"

\* C25: DELETE works in a fixed order: the cache entry of the key is removed
\* before any backend DELETE is issued, and the DELETE of the hash-shard
\* object is issued before that of the listing child; with deletion disabled
\* none of the three happens and the answer is 405.
C25_DeleteOrder ==
  [][\A p \in Procs :
       IsDelete(p)' =>
         /\ Len(sent'[p]) <= 2
         /\ \A i \in 1..Len(sent'[p]) :
              /\ sent'[p][i].method = "DELETE"
              /\ sent'[p][i].target =
                   (IF i = 1 THEN "hash_obj" ELSE "listing_child")
         /\ conf.hasCache /\ Len(sent'[p]) > Len(sent[p]) =>
              /\ Len(cacheops[p]) = 1 /\ cacheops[p][1].op = "delete"
              /\ memcache[req[p].container] = Absent
         /\ ~conf.delete_enabled /\ req'[p].kind # "denied" =>
              /\ pc'[p] = "done" /\ resp'[p] = Plain(405)
              /\ sent'[p] = <<>> /\ cacheops'[p] = <<>>
              /\ memcache' = memcache /\ hash_obj' = hash_obj
              /\ listing_child' = listing_child]_vars

\* A DELETE removed a cached record, then the hash-shard object, then the
\* listing child.
C25_Witness ==
  \E p \in Procs :
    /\ IsDelete(p) /\ pc[p] = "done" /\ resp[p].status = 204
    /\ cacheops[p] = <<[op |-> "delete", kind |-> "json"]>>
    /\ sent[p] = <<SubReq("DELETE", "hash_obj", 204),
                   SubReq("DELETE", "listing_child", 204)>>

\* C26: the backend answers a listing GET with marker m with names greater
\* than m only, and the listing is finite; then a listing request issues
\* finitely many listing GETs and returns, whatever the filter, the limit
\* (0 included) and the malformed rows, and the markers of successive
\* requests are strictly increasing.
C26_ListingTerminates ==
  /\ [][given.surface = "listing" =>
          /\ Len(listing'.gets) <= MaxRows + 1
          /\ \A i \in 1..Len(listing'.gets) - 1 :
               listing'.gets[i].marker < listing'.gets[i + 1].marker]_vars
  /\ (given.surface = "listing" ~> listing.pc = "done")

\* With limit=0 over three rows the handler went through every page, each
\* time from the last name, and returned the empty list.
C26_Witness ==
  /\ given.surface = "listing" /\ given.limit = "0"
  /\ listing.pc = "done" /\ listing.status = 200 /\ listing.out = <<>>
  /\ Len(listing.gets) = 3
  /\ listing.gets[3].rows = <<>>
  /\ listing.gets[1].marker < listing.gets[2].marker
  /\ listing.gets[2].marker < listing.gets[3].marker

\* Every slot is between two requests: idle, or holding a response that has
\* been made and not yet returned.
BetweenRequests == \A p \in Procs : ~InFlight(p) \/ Done(p)

\* C27: with requests served one at a time, in every state between two
\* requests and for every container, a serialized record in the cache equals
\* the content of the hash-shard object, and a cached "404" means that the
\* backend holds no hash-shard object; failed requests included.
C27_CacheCoherent ==
  BetweenRequests =>
    \A c \in Containers :
      /\ memcache[c].kind = "json" => memcache[c] = hash_obj[c]
      /\ memcache[c] = Sentinel404 => hash_obj[c] = Absent

\* A PUT has ended in a database failure after it had stored and cached the
\* new record: the cache and the hash-shard object agree.
C27_Witness ==
  \E p \in Procs :
    /\ Done(p) /\ IsDb(p, {"PUT"}) /\ resp[p].status = 500
    /\ Len(sent[p]) >= 2 /\ sent[p][Len(sent[p])].target # "hash_obj"
    /\ memcache[req[p].container].kind = "json"
    /\ memcache[req[p].container] = hash_obj[req[p].container]

\* The ttl of a serialized record lies within [min_ttl, max_ttl].
RecordTtlInRange(v) ==
  v.kind = "json" /\ min_ttl <= v.ttl /\ v.ttl <= max_ttl

\* A PUT or POST has been refused for its ttl: X-TTL was an integer, or was
\* absent and the ttl came from the existing record or from default_ttl.
TtlRefused(p) ==
  /\ Done(p) /\ PutOrPost(p) /\ req[p].kind = "ok"
  /\ resp[p].status = 400
  /\ headers[p].x_ttl = NoHeader \/ int(headers[p].x_ttl).ok

\* C28, as stated: every record that a PUT or POST writes to a hash-shard
\* object or into the cache has min_ttl <= ttl <= max_ttl, and a request
\* whose resulting ttl is out of range writes nothing, neither to the
\* backend nor into the cache.
C28_WritesNothing ==
  /\ [][\A c \in Containers :
          /\ hash_obj'[c] # hash_obj[c] => RecordTtlInRange(hash_obj'[c])
          /\ memcache'[c] # memcache[c] /\ memcache'[c].kind = "json"
               => RecordTtlInRange(memcache'[c])]_vars
  /\ [](\A p \in Procs :
          TtlRefused(p)
            => /\ Writes(p) = {}
               /\ \A i \in DOMAIN cacheops[p] : cacheops[p][i].op # "set")

\* C28, amended: every record that a PUT or POST builds and writes, to the
\* hash-shard object and then into the cache, has min_ttl <= ttl <= max_ttl,
\* also when the ttl is inherited or the default; a request whose resulting
\* ttl is out of range issues no backend PUT, POST or DELETE, and the only
\* cache write it makes is the one of its lookup of the existing record,
\* which on a miss copies what the backend holds (the record, whatever its
\* ttl, or "404").
C28_BuiltRecordInRange ==
  /\ [][\A c \in Containers :
          /\ hash_obj'[c] # hash_obj[c] => RecordTtlInRange(hash_obj'[c])
          /\ memcache'[c] # memcache[c]
               => \/ RecordTtlInRange(memcache'[c])
                  \/ \E p \in Procs :
                       /\ pc[p] = "gcd_cache_set" /\ req[p].container = c
                       /\ memcache'[c] = pending[p]
                       /\ pending[p] \in {hash_obj[c], Sentinel404}]_vars
  /\ [](\A p \in Procs :
          TtlRefused(p)
            => /\ Writes(p) = {}
               /\ Len(sent[p]) <= 1
               /\ \A i \in DOMAIN cacheops[p] :
                    cacheops[p][i].op = "set" => i = 2 /\ Len(sent[p]) = 1)

\* A PUT without X-TTL over a record whose ttl is above max_ttl has been
\* refused, after its lookup had copied that record into the cache.
C28_Witness ==
  \E p \in Procs :
    /\ TtlRefused(p) /\ req[p].method = "PUT" /\ headers[p].x_ttl = NoHeader
    /\ sent[p] = <<SubReq("GET", "hash_obj", 200)>>
    /\ cacheops[p] = <<[op |-> "get", kind |-> "absent"],
                       [op |-> "set", kind |-> "json"]>>
    /\ memcache[req[p].container] = hash_obj[req[p].container]
    /\ hash_obj[req[p].container].ttl > max_ttl

\* The listing child of container c is there exactly when the hash-shard
\* object is, and its Content-Type decodes to the values of the record.
Projected(c) ==
  /\ listing_child[c] # NoChild <=> hash_obj[c] # Absent
  /\ hash_obj[c] # Absent =>
       LET d == ParseContentType(listing_child[c])
           rec == create_from_json(hash_obj[c])
       IN  /\ rec # None /\ d.ok
           /\ d.cdn_enabled = rec.cdn_enabled
           /\ d.ttl = rec.ttl
           /\ d.log_ret = rec.logs_enabled

\* C29: with requests served one at a time and none of them ended in a
\* database failure, between two requests the listing child of a container
\* exists exactly when its hash-shard object exists, and its Content-Type
\* decodes, as the listing GET decodes it, to the cdn_enabled, ttl and
\* logs_enabled of the stored record.
C29_ListingProjection ==
  BetweenRequests /\ (\A p \in Procs : Done(p) => resp[p].status # 500)
    => \A c \in Containers : Projected(c)

\* A POST has changed a record, and a PUT whose HEAD of the listing
\* container the backend failed has been answered 201 all the same: the
\* listing child decodes to the stored record.
C29_Witness ==
  \E p \in Procs :
    /\ Done(p) /\ IsDb(p, {"PUT"}) /\ resp[p].status = 201
    /\ \E i \in DOMAIN sent[p] :
         sent[p][i].target = "listing_cont" /\ sent[p][i].status = 500
    /\ Projected(req[p].container)
    /\ create_from_json(hash_obj[req[p].container]).logs_enabled
    /\ ~create_from_json(hash_obj[req[p].container]).cdn_enabled

\* The sub-requests of slot p that go to target t.
SentTo(s, t) == {i \in DOMAIN s : s[i].target = t}

\* C30: the edge path is read-only. Handling an edge request sends the
\* backend only a GET of the hash-shard object and at most one request with
\* the client's own method, GET or HEAD, on the object path, never a PUT,
\* POST or DELETE; it deletes no cache entry; and every hash-shard object,
\* the listing container and every listing child stay as they were.
C30_EdgeReadOnly ==
  [][/\ backend' = backend
     /\ \A c \in Containers : memcache[c] # Absent => memcache'[c] # Absent
     /\ \A p \in Procs :
          req'[p].surface = "edge" =>
            /\ \A i \in DOMAIN sent'[p] :
                 \/ /\ sent'[p][i].target = "hash_obj"
                    /\ sent'[p][i].method = "GET"
                 \/ /\ sent'[p][i].target = "object"
                    /\ sent'[p][i].method = req'[p].method
                    /\ sent'[p][i].method \in {"GET", "HEAD"}
            /\ Cardinality(SentTo(sent'[p], "hash_obj")) <= 1
            /\ Cardinality(SentTo(sent'[p], "object")) <= 1
            /\ \A i \in DOMAIN cacheops'[p] : cacheops'[p][i].op # "delete"
    ]_vars

\* A HEAD at the edge has been answered from the backend: the lookup went to
\* the hash-shard object and filled the cache, the HEAD went to the object,
\* and the hash-shard object is what it was.
C30_Witness ==
  \E p \in Procs :
    /\ Done(p) /\ IsEdge(p) /\ req[p].method = "HEAD"
    /\ resp[p].status = 200
    /\ sent[p] = <<SubReq("GET", "hash_obj", 200),
                   SubReq("HEAD", "object", 200)>>
    /\ cacheops[p] = <<[op |-> "get", kind |-> "absent"],
                       [op |-> "set", kind |-> "json"]>>
    /\ memcache[req[p].container] = hash_obj[req[p].container]

====
